---------------------------- MODULE Spec2Model ----------------------------
(***************************************************************************)
(* A model of the transactional event-distribution core of happy-server:   *)
(*   - inTx / afterTx            (sources/storage/inTx.ts)                  *)
(*   - allocateUserSeq           (storage/seq.ts)                           *)
(*   - the versioned-field update handlers (machine metadata, machine      *)
(*     daemon state, account settings, access-key data, artifact)          *)
(*   - the new-session handler and EventRouter.emitUpdate                   *)
(*   - kvMutate, single writes and batches (unnamed/part_006)              *)
(*   - the socket server's handshake and EventRouter's connection registry *)
(*     and recipient filters     (socket.ts, eventRouter.ts, auth.ts)      *)
(*   - ActivityCache and process shutdown (sessionCache.ts, main.ts)       *)
(*   - the handlers that call EventRouter.emitEphemeral (part_005,         *)
(*     part_008, usageHandler.ts, socket.ts)                               *)
(*   - AsyncLock                 (sources/utils/lock.ts)                   *)
(*   - the session-timeout loop  (part_005, utils/lru.ts forever,          *)
(*     delay.ts, backoff.ts)                                               *)
(*   - friendAdd, friendRemove   (part_011, part_012, part_010)            *)
(*                                                                         *)
(* Granularity.  The server runs on one event loop: code between two       *)
(* awaits runs without interleaving.  Every action below is therefore one  *)
(* store round-trip together with the synchronous continuation that runs   *)
(* when it resolves, up to the next await.                                 *)
(*                                                                         *)
(* The module holds these specifications over one set of variables:        *)
(*   SpecTx        one inTx call with a nondeterministic unit of work      *)
(*   SpecSeq       concurrent callers of allocateUserSeq                   *)
(*   SpecOcc       concurrent request handlers on one account              *)
(*   SpecWrites    the handlers of SpecOcc together with POST /v1/kv       *)
(*   SpecConn      socket connections and event delivery                   *)
(*   SpecCache     the activity cache of one machine through time          *)
(*   SpecShutdown  the activity cache through process shutdown             *)
(*   SpecKv        kvMutate calls with batches of mutations                *)
(*   SpecEph       the handlers of the ephemeral path                      *)
(*   SpecSweep     timeout sweeps beside the activity cache                *)
(*   SpecLock      callers of one AsyncLock (FairSpecLock: with progress)  *)
(*   SpecLoop      the session-timeout loop through process shutdown       *)
(*   SpecFriends   friendAdd and friendRemove calls among three users      *)
(***************************************************************************)
EXTENDS Integers, Sequences, FiniteSets, TLC

\* ------------------------------------------------------------------ bounds

\* Steps (writes and afterTx registrations) a unit of work makes per attempt.
MaxOps == 3

\* Concurrent callers of allocateUserSeq, and the calls they make in all.
NumCallers == 2

MaxCalls == 3

\* Clients that submit requests concurrently.
NumWriters == 2

\* ------------------------------------------------------- program constants

\* inTx.ts:49  `counter < 3`
MaxRetries == 3

\* ---------------------------------------------------------------- values

NULL == "<null>"
NoError == "<none>"

\* inTx has not resolved: no set of rows.
NoResult == {NULL}

\* Errors a transaction attempt can end with.  P2034 is Prisma's
\* serialization-conflict code; P2028 (transaction timeout) stands for every
\* other PrismaClientKnownRequestError; Error for everything else.
P2034 == "P2034"
Errors == {P2034, "P2028", "Error"}

\* inTx.ts:48  e instanceof Prisma.PrismaClientKnownRequestError
IsKnownRequestError(e) == e \in {P2034, "P2028"}

Users == {"u1", "u2"}
Rows == {"r1", "r2"}

\* What a post-commit hook does when called:
\*   sync    emits an event and returns            (part_000:62)
\*   throws  throws synchronously
\*   async   an async function: awaits allocateUserSeq, then emits
\*           (part_006:136-143, part_013:68, sessionDelete.ts:93)
HookKinds == {"sync", "throws", "async"}

VARIABLES
    \* --- the store
    accountSeq,     \* Account.seq per user
    rows,           \* committed rows written through inTx
    \* --- one inTx call
    txPc,           \* position of the inTx call
    counter,        \* inTx's retry counter
    txView,         \* the rows as the open transaction sees them
    callbacks,      \* (tx as any)[symbol]: hooks <<attempt, kind>> registered on the tx
    ops,            \* steps the unit of work made in this attempt
    lastError,      \* the error the current attempt ended with
    thrown,         \* the error inTx rejected with
    result,         \* the value inTx resolved with
    fnResult,       \* the value the unit of work returned
    ran,            \* hooks called so far: <<registering attempt, index, kind>>
    events,         \* events emitted by hooks
    pending,        \* async hooks suspended at await allocateUserSeq
    logged,         \* console.error calls made by inTx
    commits,        \* transactions committed
    attempts,       \* executions of the unit of work started
    abortedHooks,   \* a rolled-back attempt had registered hooks
    procExited,     \* process.exit(1) was called
    \* --- concurrent callers of allocateUserSeq
    callers,        \* per caller: position, user, calls completed at its start
    retLog,         \* completed calls in completion order: [u, val, floor]
    \* --- concurrent request handlers on one account
    fields,         \* the versioned columns: [value, version] per field
    machineActive,  \* Machine.active
    artifact,       \* the artifact row
    sessions,       \* session rows holding the tag
    delivered,      \* what the user's user-scoped connection was sent
    writers,        \* per client: its request, the handler's position, the reply,
                    \* and whether a conditional write of its was refused
    \* --- the socket server and the connection registry
    sockets,        \* per socket: handshake.auth, the connection handler's
                    \* position, the transport's state, the disconnect listener
    userConnections,\* EventRouter.userConnections: the connections per user
    tokenCache,     \* auth.tokenCache: the tokens verified so far
    sentTo,         \* per socket: update / ephemeral events pushed to it
    lastEmit,       \* the parameters of the latest EventRouter.emit call
    emitCount,      \* EventRouter.emit calls made
    \* --- the activity cache
    now,            \* Date.now(), in milliseconds
    cache,          \* sessionCache / machineCache: the entry per id
    activeAt,       \* the store: lastActiveAt per session / machine
    lookups,        \* validations waiting for findUnique: [id, userId, now]
    flights,        \* flushPendingUpdates calls waiting for their writes
    ret,            \* the latest call of the cache's interface and its result
    batchTimer,     \* batchTimer is set
    dbOpen,         \* the store connection is open
    procPc,         \* the process: running, shutdown (handlers started), exited
    pendingAtShutdown, \* the pending updates when shutdown() was called
    \* --- the key-value store of one user
    kvStore,        \* UserKVStore: the row [value, version] per key
    kvReply,        \* what the latest kvMutate call returned or threw
    kvHooks,        \* afterTx hooks of kvMutate waiting for allocateUserSeq
    kvEvent,        \* the latest kv-batch-update event emitted
    kvCalls,        \* kvMutate calls made
    \* --- the store rows the ephemeral handlers write
    usageReports,   \* UsageReport: the sessionIds a report is stored under
    sessionActive,  \* Session.active
    \* --- one AsyncLock and the inLock calls made on it
    permits,        \* AsyncLock.permits
    promiseResolverQueue, \* AsyncLock.promiseResolverQueue: the waiting calls
    lockPc,         \* per inLock call: its position
    lockArrived,    \* the calls in the order they called inLock
    lockStarted,    \* the calls in the order their functions were started
    \* --- the task started with forever
    loopPc,         \* the position of the session-timeout loop
    \* --- the relationships between users
    relationships,  \* UserRelationship.status per <<fromUserId, toUserId>>
    friendOps       \* friendAdd / friendRemove calls made: [adds, removes]

txVars == <<rows, txPc, counter, txView, callbacks, ops, lastError, thrown,
            result, fnResult, ran, events, pending, logged, commits, attempts,
            abortedHooks, procExited>>

seqVars == <<callers, retLog>>

occVars == <<fields, machineActive, artifact, sessions, delivered, writers>>

connVars == <<sockets, userConnections, tokenCache, sentTo, lastEmit, emitCount>>

cacheVars == <<now, cache, activeAt, lookups, flights, ret, batchTimer,
               dbOpen, procPc, pendingAtShutdown>>

kvVars == <<kvStore, kvReply, kvHooks, kvEvent, kvCalls>>

ephVars == <<usageReports, sessionActive>>

lockVars == <<permits, promiseResolverQueue, lockPc, lockArrived, lockStarted>>

friendVars == <<relationships, friendOps>>

auxVars == <<lockVars, loopPc, friendVars>>

restVars == <<connVars, cacheVars, kvVars, ephVars, auxVars>>

vars == <<accountSeq, txVars, seqVars, occVars, restVars>>

nonTxVars == <<seqVars, occVars, restVars>>

\* ------------------------------------------------------------ allocateUserSeq

\* data: { seq: 1 } in place of data: { seq: { increment: 1 } }.
AllocateUserSeqSets(seqs, u) == [seqs EXCEPT ![u] = 1]

\* storage/seq.ts:12-18.  One UPDATE ... SET seq = seq + 1 RETURNING seq:
\* the new counter of user u, and the value returned.
AllocateUserSeq(seqs, u) == [seqs EXCEPT ![u] = @ + 1]

AllocatedSeq(seqs, u) == AllocateUserSeq(seqs, u)[u]

\* ---------------------------------------------------------------------- inTx

TxInit ==
    /\ rows = {}
    /\ txPc = "idle"
    /\ counter = 0
    /\ txView = {}
    /\ callbacks = <<>>
    /\ ops = 0
    /\ lastError = NoError
    /\ thrown = NoError
    /\ result = NoResult
    /\ fnResult = NoResult
    /\ ran = <<>>
    /\ events = <<>>
    /\ pending = {}
    /\ logged = 0
    /\ commits = 0
    /\ attempts = 0
    /\ abortedHooks = FALSE
    /\ procExited = FALSE

\* inTx.ts:25  let counter = 0, then the first pass of while (true).
InTxCall ==
    /\ txPc = "idle"
    /\ ~procExited
    /\ counter' = 0
    /\ txPc' = "begin"
    /\ UNCHANGED nonTxVars
    /\ UNCHANGED <<accountSeq, rows, txView, callbacks, ops, lastError, thrown,
                   result, fnResult, ran, events, pending, logged, commits,
                   attempts, abortedHooks, procExited>>

\* TxBegin without line 28: the hook list survives a rolled-back attempt.
TxBeginKeepsHooks ==
    /\ txPc = "begin"
    /\ ~procExited
    /\ txView' = rows
    /\ ops' = 0
    /\ attempts' = attempts + 1
    /\ lastError' = NoError
    /\ txPc' = "fn"
    /\ UNCHANGED nonTxVars
    /\ UNCHANGED <<accountSeq, rows, counter, callbacks, thrown, result,
                   fnResult, ran, events, pending, logged, commits,
                   abortedHooks, procExited>>

\* inTx.ts:36 and 27-29.  db.$transaction opens a transaction and calls
\* wrapped, which resets the hook list and starts the unit of work.
TxBegin ==
    /\ txPc = "begin"
    /\ ~procExited
    /\ txView' = rows
    /\ callbacks' = <<>>
    /\ ops' = 0
    /\ attempts' = attempts + 1
    /\ lastError' = NoError
    /\ txPc' = "fn"
    /\ UNCHANGED nonTxVars
    /\ UNCHANGED <<accountSeq, rows, counter, thrown, result, fnResult, ran,
                   events, pending, logged, commits, abortedHooks, procExited>>

\* The unit of work writes a row through the transaction client: the write
\* is in the transaction's view only.
FnWrite(r) ==
    /\ txPc = "fn"
    /\ ~procExited
    /\ ops < MaxOps
    /\ txView' = txView \cup {r}
    /\ ops' = ops + 1
    /\ UNCHANGED nonTxVars
    /\ UNCHANGED <<accountSeq, rows, txPc, counter, callbacks, lastError,
                   thrown, result, fnResult, ran, events, pending, logged,
                   commits, attempts, abortedHooks, procExited>>

\* An afterTx that puts the callback in front of the list.
AfterTxUnshift(cbs, h) == <<h>> \o cbs

\* inTx.ts:14-17  afterTx(tx, callback): callbacks.push(callback)
AfterTx(cbs, h) == Append(cbs, h)

FnAfterTx(k) ==
    /\ txPc = "fn"
    /\ ~procExited
    /\ ops < MaxOps
    /\ callbacks' = AfterTx(callbacks, <<attempts, k>>)
    /\ ops' = ops + 1
    /\ UNCHANGED nonTxVars
    /\ UNCHANGED <<accountSeq, rows, txPc, counter, txView, lastError, thrown,
                   result, fnResult, ran, events, pending, logged, commits,
                   attempts, abortedHooks, procExited>>

\* inTx.ts:29-31  fn returns; wrapped returns {result, callbacks} and the
\* transaction goes to commit.
FnReturn ==
    /\ txPc = "fn"
    /\ ~procExited
    /\ fnResult' = txView
    /\ txPc' = "commit"
    /\ UNCHANGED nonTxVars
    /\ UNCHANGED <<accountSeq, rows, counter, txView, callbacks, ops,
                   lastError, thrown, result, ran, events, pending, logged,
                   commits, attempts, abortedHooks, procExited>>

\* A rollback that keeps the attempt's writes.
RolledBackLeaks(committed, view) == view

\* What a rolled-back attempt leaves of the store: nothing of its view.
RolledBack(committed, view) == committed

\* The transaction is rolled back with error e: the unit of work (or a query
\* in it) threw, or the commit was refused.  db.$transaction rejects with e
\* and control reaches the catch at inTx.ts:46.
TxAbort(e) ==
    /\ rows' = RolledBack(rows, txView)
    /\ lastError' = e
    /\ abortedHooks' = (abortedHooks \/ callbacks # <<>>)
    /\ txPc' = "catch"
    /\ UNCHANGED nonTxVars
    /\ UNCHANGED <<accountSeq, counter, txView, callbacks, ops, thrown, result,
                   fnResult, ran, events, pending, logged, commits, attempts,
                   procExited>>

\* The unit of work throws e before commit.
FnThrow(e) ==
    /\ txPc = "fn"
    /\ ~procExited
    /\ TxAbort(e)

\* The store refuses the commit: a serialization conflict or a timeout.
CommitFail(e) ==
    /\ txPc = "commit"
    /\ ~procExited
    /\ IsKnownRequestError(e)
    /\ TxAbort(e)

\* The store commits the transaction: its writes become visible.
CommitOk ==
    /\ txPc = "commit"
    /\ ~procExited
    /\ rows' = txView
    /\ commits' = commits + 1
    /\ txPc' = "committed"
    /\ UNCHANGED nonTxVars
    /\ UNCHANGED <<accountSeq, counter, txView, callbacks, ops, lastError,
                   thrown, result, fnResult, ran, events, pending, logged,
                   attempts, abortedHooks, procExited>>

\* A callback's exception leaving the loop (no try around callback()).
HookThrowEscapes(st) == [st EXCEPT !.escaped = TRUE]

\* inTx.ts:41-43  catch (e) { console.error(e) } around one callback.
HookThrowCaught(st) == [st EXCEPT !.logged = @ + 1]

\* inTx.ts:39-40  callback() for the hook h = <<attempt that registered it,
\* kind>> at index i of the list.  An async hook runs to its first await and
\* returns a promise that inTx drops; a rejection of that promise is not an
\* exception of callback().
CallHook(h, i, st) ==
    LET called == [st EXCEPT !.ran = Append(@, <<h[1], i, h[2]>>)]
    IN  CASE h[2] = "sync"   -> [called EXCEPT !.events = Append(@, <<h[1], i, 0>>)]
          [] h[2] = "throws" -> HookThrowCaught(called)
          [] h[2] = "async"  -> [called EXCEPT !.pending = @ \cup {<<h[1], i>>}]

\* inTx.ts:38-44  for (let callback of result.callbacks) { ... }
RECURSIVE RunCallbacks(_, _, _)
RunCallbacks(cbs, i, st) ==
    IF i > Len(cbs) \/ st.escaped
    THEN st
    ELSE RunCallbacks(cbs, i + 1, CallHook(cbs[i], i, st))

\* inTx.ts:36-45  the await of db.$transaction resolves: the hooks run in
\* one synchronous loop and inTx returns the unit of work's result.  An
\* exception that leaves the loop reaches the catch at line 46.
RunHooksAndReturn ==
    /\ txPc = "committed"
    /\ ~procExited
    /\ LET st == RunCallbacks(callbacks, 1,
                    [ran |-> ran, events |-> events, pending |-> pending,
                     logged |-> logged, escaped |-> FALSE])
       IN  /\ ran' = st.ran
           /\ events' = st.events
           /\ pending' = st.pending
           /\ logged' = st.logged
           /\ IF st.escaped
              THEN /\ lastError' = "Error"
                   /\ txPc' = "catch"
                   /\ result' = result
              ELSE /\ lastError' = lastError
                   /\ txPc' = "returned"
                   /\ result' = fnResult
    /\ UNCHANGED nonTxVars
    /\ UNCHANGED <<accountSeq, rows, counter, txView, callbacks, ops, thrown,
                   fnResult, commits, attempts, abortedHooks, procExited>>

\* A retry test that does not look at the error.
RetriesOnAnyError(e, c) == c < MaxRetries

\* inTx.ts:48-49  the retry test.
ShouldRetry(e, c) == IsKnownRequestError(e) /\ e = P2034 /\ c < MaxRetries

\* inTx.ts:46-57  the catch block: count and back off, or rethrow.
Catch ==
    /\ txPc = "catch"
    /\ ~procExited
    /\ IF ShouldRetry(lastError, counter)
       THEN /\ counter' = counter + 1
            /\ txPc' = "delay"
            /\ thrown' = thrown
       ELSE /\ counter' = counter
            /\ txPc' = "thrown"
            /\ thrown' = lastError
    /\ UNCHANGED nonTxVars
    /\ UNCHANGED <<accountSeq, rows, txView, callbacks, ops, lastError, result,
                   fnResult, ran, events, pending, logged, commits, attempts,
                   abortedHooks, procExited>>

\* inTx.ts:52-53  await delay(counter * 100); continue
DelayDone ==
    /\ txPc = "delay"
    /\ ~procExited
    /\ txPc' = "begin"
    /\ UNCHANGED nonTxVars
    /\ UNCHANGED <<accountSeq, rows, counter, txView, callbacks, ops,
                   lastError, thrown, result, fnResult, ran, events, pending,
                   logged, commits, attempts, abortedHooks, procExited>>

\* part_006:137-142  an async hook's allocateUserSeq resolves: the hook
\* emits its event with the allocated seq.
AsyncHookResume(h, u) ==
    /\ h \in pending
    /\ ~procExited
    /\ accountSeq' = AllocateUserSeq(accountSeq, u)
    /\ events' = Append(events, <<h[1], h[2], AllocatedSeq(accountSeq, u)>>)
    /\ pending' = pending \ {h}
    /\ UNCHANGED nonTxVars
    /\ UNCHANGED <<rows, txPc, counter, txView, callbacks, ops, lastError,
                   thrown, result, fnResult, ran, logged, commits, attempts,
                   abortedHooks, procExited>>

\* part_006:137  an async hook's allocateUserSeq rejects.  The promise the
\* hook returned was dropped by inTx.ts:40, so the rejection is unhandled:
\* main.ts:95-108  process.on('unhandledRejection', ...) logs and exits.
AsyncHookReject(h) ==
    /\ h \in pending
    /\ ~procExited
    /\ pending' = pending \ {h}
    /\ procExited' = TRUE
    /\ UNCHANGED nonTxVars
    /\ UNCHANGED <<accountSeq, rows, txPc, counter, txView, callbacks, ops,
                   lastError, thrown, result, fnResult, ran, events, logged,
                   commits, attempts, abortedHooks>>

\* ------------------------------------------------- initial states of the rest

Callers == 1..NumCallers

Writers == 1..NumWriters

\* The versioned columns updated with a conditional write.
Fields == {"metadata", "daemonState", "settings", "accessKey"}

\* part_006:52-61  the user's row of UserKVStore under one key; no row reads
\* as version -1 (existing?.version ?? -1).
NoRow == [value |-> NULL, version |-> -1]

\* The versioned columns together with the KV row.
Columns == Fields \cup {"kv"}

NoReply == [result |-> "none", version |-> 0, value |-> NULL, bodyVersion |-> 0]

IdleWriter ==
    [pc |-> "idle", kind |-> "none", value |-> NULL, ev |-> 0, evBody |-> 0,
     read |-> 0, updSeq |-> 0, reply |-> NoReply, refused |-> FALSE]

SeqInit ==
    /\ callers = [c \in Callers |-> [pc |-> "idle", u |-> "u1", floor |-> 0]]
    /\ retLog = <<>>

OccInit ==
    /\ fields = [f \in Columns |->
                    IF f = "kv" THEN NoRow
                    ELSE [value |-> IF f \in {"metadata", "accessKey"} THEN "a" ELSE NULL,
                          version |-> 0]]
    /\ machineActive = FALSE
    /\ artifact = [header |-> "a", headerVersion |-> 0,
                   body |-> "a", bodyVersion |-> 0, seq |-> 0]
    /\ sessions = 0
    /\ delivered = <<>>
    /\ writers = [w \in Writers |-> IdleWriter]

\* ------------------------------------------- the socket server: constants

\* EventRouter.emit calls made by request handlers.
MaxEmits == 2

\* The sockets that attempt to connect; a socket is one attempt.
Sockets == {"k1", "k2"}

SessionIds == {"s1", "s2"}

MachineIds == {"m1", "m2"}

\* handshake.auth.token: missing, failing verification, or a user's token.
Tokens == {NULL, "bad", "t1", "t2"}

\* socket.ts:58-61  handshake.auth: clientType undefined is user-scoped; a
\* session-scoped / machine-scoped client sends its qualifier or omits it.
Auths ==
    [token : Tokens, clientType : {NULL}, sessionId : {NULL}, machineId : {NULL}]
        \cup [token : Tokens, clientType : {"session-scoped"},
              sessionId : SessionIds \cup {NULL}, machineId : {NULL}]
        \cup [token : Tokens, clientType : {"machine-scoped"},
              sessionId : {NULL}, machineId : MachineIds \cup {NULL}]

NoAuth == [token |-> NULL, clientType |-> NULL, sessionId |-> NULL, machineId |-> NULL]

\* eventRouter.ts:38-42  RecipientFilter.
Filters ==
    {[type |-> "all-interested-in-session", sessionId |-> sid, machineId |-> NULL] :
        sid \in SessionIds}
        \cup {[type |-> "user-scoped-only", sessionId |-> NULL, machineId |-> NULL]}
        \cup {[type |-> "machine-scoped-only", sessionId |-> NULL, machineId |-> mid] :
                mid \in MachineIds}
        \cup {[type |-> "all-user-authenticated-connections",
               sessionId |-> NULL, machineId |-> NULL]}

UserScopedOnly == [type |-> "user-scoped-only", sessionId |-> NULL, machineId |-> NULL]

\* emitUpdate / emitEphemeral called without a recipientFilter.
NoFilter == [type |-> "none", sessionId |-> NULL, machineId |-> NULL]

\* A payload other than machine-activity.
NoPayload == [type |-> "none", id |-> NULL, active |-> FALSE, activeAt |-> 0]

\* No emit call was made yet.
NoEmit == [userId |-> NULL, filter |-> NoFilter, skip |-> {}, payload |-> NoPayload]

\* The socket server after startSocket: no connection attempt was made.
ConnInit ==
    /\ sockets = [s \in Sockets |->
                    [pc |-> "none", auth |-> NoAuth, connected |-> FALSE,
                     listening |-> FALSE]]
    /\ userConnections = [u \in Users |-> {}]
    /\ tokenCache = {}
    /\ sentTo = [s \in Sockets |-> 0]
    /\ lastEmit = NoEmit
    /\ emitCount = 0

\* ------------------------------------------- the activity cache: constants

\* The seconds of run time the model follows.
MaxSeconds == 41

\* Validations that wait for the store at one time.
MaxLookups == 2

\* Flushes that wait for their writes at one time.
MaxFlights == 1

\* sessionCache.ts:37  CACHE_TTL = 30 * 1000
CACHE_TTL == 30000

\* sessionCache.ts:40  UPDATE_THRESHOLD = 30 * 1000
UPDATE_THRESHOLD == 30000

\* Date.now() when the model starts.
Start == 100000

\* The time that passes between two events, in milliseconds.
Steps == {10000, 31000}

\* pendingUpdate: null; lastActiveAt: null.
NoStamp == -1

\* One session and one machine; both belong to u1.
CacheIds == {"s1", "m1"}

IsSession(id) == id = "s1"

Owner(id) == "u1"

NoEntry == [cached |-> FALSE, validUntil |-> 0, lastUpdateSent |-> 0,
            pendingUpdate |-> NoStamp, userId |-> NULL]

NoCall == [op |-> "none", result |-> FALSE, hit |-> FALSE]

\* The activity cache after construction: both caches empty, the batch
\* timer started (sessionCache.ts:32-34, 49-51).
CacheInit ==
    /\ now = Start
    /\ cache = [id \in CacheIds |-> NoEntry]
    /\ activeAt = [id \in CacheIds |-> IF IsSession(id) THEN Start ELSE NoStamp]
    /\ lookups = {}
    /\ flights = {}
    /\ ret = NoCall
    /\ batchTimer = TRUE
    /\ dbOpen = TRUE
    /\ procPc = "running"
    /\ pendingAtShutdown = [id \in CacheIds |-> NoStamp]

\* kvMutate calls made in all, and hooks of kvMutate that wait for
\* allocateUserSeq at one time.
MaxKvCalls == 3

MaxHooks == 1

\* The keys of the user's key-value store that appear in requests.
Keys == {"k1", "k2"}

\* kvRoutes.ts:146-150  one mutation of a batch.
BatchVersions == {-1, 0, 1}

Mutations == [key : Keys, value : {NULL, "a"}, version : BatchVersions]

\* kvRoutes.ts:145-150  z.array(...).min(1): the batches of one and of two
\* mutations, two mutations of the same key included.
Batches ==
    {<<m>> : m \in Mutations} \cup {<<m1, m2>> : m1 \in Mutations, m2 \in Mutations}

NoKvReply == [result |-> "none", errors |-> <<>>, results |-> <<>>]

NoKvEvent == [seq |-> 0, changes |-> <<>>]

KvInit ==
    /\ kvStore = [k \in Keys |-> NoRow]
    /\ kvReply = NoKvReply
    /\ kvHooks = <<>>
    /\ kvEvent = NoKvEvent
    /\ kvCalls = 0

EphInit ==
    /\ usageReports = {}
    /\ sessionActive = TRUE

\* inLock calls made on one lock (usageHandler.ts:22: one 'usage-report'
\* event each).
NumLockCalls == 3

LockCalls == 1..NumLockCalls

\* lock.ts:3-4  a new AsyncLock; no inLock call was made.
LockInit ==
    /\ permits = 1
    /\ promiseResolverQueue = <<>>
    /\ lockPc = [c \in LockCalls |-> "idle"]
    /\ lockArrived = <<>>
    /\ lockStarted = <<>>

\* part_005:12-16  startTimeout has called forever and the first findMany of
\* the loop is on its way to the store.
LoopInit == loopPc = "sessions"

\* friendAdd / friendRemove calls the model follows.
MaxFriendOps == 4

\* The accounts that befriend each other.
FriendUsers == {"u1", "u2", "u3"}

Pairs == {p \in FriendUsers \X FriendUsers : p[1] # p[2]}

\* relationshipGet.ts:39  no row reads as RelationshipStatus.none.
FriendInit ==
    /\ relationships = [p \in Pairs |-> "none"]
    /\ friendOps = [adds |-> 0, removes |-> 0]

AuxInit ==
    /\ LockInit
    /\ LoopInit
    /\ FriendInit

RestInit ==
    /\ ConnInit
    /\ CacheInit
    /\ KvInit
    /\ EphInit
    /\ AuxInit


TxUser == "u1"

NextTx ==
    \/ InTxCall
    \/ TxBegin
    \/ \E r \in Rows : FnWrite(r)
    \/ \E k \in HookKinds : FnAfterTx(k)
    \/ FnReturn
    \/ \E e \in Errors : FnThrow(e)
    \/ \E e \in Errors : CommitFail(e)
    \/ CommitOk
    \/ RunHooksAndReturn
    \/ Catch
    \/ DelayDone
    \/ \E h \in pending : AsyncHookResume(h, TxUser)
    \/ \E h \in pending : AsyncHookReject(h)

InitTx ==
    /\ accountSeq = [u \in Users |-> 0]
    /\ TxInit
    /\ SeqInit
    /\ OccInit
    /\ RestInit

SpecTx == InitTx /\ [][NextTx]_vars

FairSpecTx == SpecTx /\ WF_vars(NextTx)

\* ------------------------------------------------------ claims about inTx

\* Events emitted for the hook registered by attempt a at index i.
EventsOf(a, i) == Cardinality({n \in 1..Len(events) : events[n][1] = a /\ events[n][2] = i})

\* C1.  If the unit of work throws after writing but before commit, and the
\* error is not a retried conflict, inTx rethrows that error, none of its
\* hooks runs, no event is emitted and none of its writes is in the store;
\* as long as nothing has committed the store holds no write of the call.
C1_AbortEmitsNothing ==
    /\ commits = 0 =>
          /\ rows = {}
          /\ ran = <<>> /\ events = <<>> /\ pending = {}
    /\ txPc = "thrown" =>
          /\ commits = 0
          /\ thrown = lastError /\ thrown \in Errors
          /\ result = NoResult

\* The unit of work wrote a row, registered a hook and threw an error that
\* is not a conflict; inTx has rethrown.
C1_Witness ==
    /\ txPc = "thrown"
    /\ txView # {}
    /\ callbacks # <<>>
    /\ thrown = "Error"

\* C7.  When inTx returns after retried conflicts (conflicts on attempts 1
\* and 2, commit on attempt 3), exactly one transaction has committed, the
\* store holds the committing attempt's writes, every hook that attempt
\* registered has run exactly once, in order, no hook of an aborted attempt
\* has run, and each synchronous hook has emitted exactly one event.
C7_RetryCommitsOnce ==
    txPc = "returned" =>
        /\ attempts = counter + 1
        /\ commits = 1
        /\ rows = fnResult /\ result = fnResult
        /\ Len(ran) = Len(callbacks)
        /\ \A i \in 1..Len(ran) :
              /\ ran[i] = <<attempts, i, callbacks[i][2]>>
              /\ callbacks[i][1] = attempts
        /\ \A n \in 1..Len(events) : events[n][1] = attempts
        /\ \A i \in 1..Len(callbacks) :
              callbacks[i][2] = "sync" => EventsOf(attempts, i) = 1

\* Attempts 1 and 2 conflicted, both after registering hooks; attempt 3
\* wrote, registered one synchronous hook and committed.
C7_Witness ==
    /\ txPc = "returned"
    /\ counter = 2
    /\ abortedHooks
    /\ rows # {}
    /\ callbacks = <<(<<3, "sync">>)>>
    /\ Len(events) = 1

\* C8.  inTx re-executes the unit of work only after a serialization
\* conflict and at most MaxRetries times; a conflict after the last allowed
\* retry, or any other error, is rethrown by the catch block without another
\* attempt; and a call that has started ends (returns or throws).
C8_BoundedRetry ==
    /\ [](counter <= MaxRetries /\ attempts <= MaxRetries + 1)
    /\ [][attempts' > attempts /\ attempts >= 1 =>
            lastError = P2034 /\ attempts <= MaxRetries]_vars
    /\ [][txPc = "catch" /\ (lastError # P2034 \/ counter = MaxRetries) =>
            txPc' = "thrown" /\ thrown' = lastError /\ attempts' = attempts]_vars
    /\ [][txPc = "thrown" => txPc' = "thrown" /\ attempts' = attempts]_vars
    /\ (txPc = "begin") ~> (txPc \in {"returned", "thrown"})

\* The fourth attempt conflicted too and inTx has rethrown the conflict.
C8_Witness ==
    /\ txPc = "thrown"
    /\ thrown = P2034
    /\ counter = MaxRetries
    /\ attempts = MaxRetries + 1

\* C9.  Once the transaction has committed and the hook loop has run, inTx
\* has returned the unit of work's result whatever the hooks did: a hook
\* that throws is logged, the hooks after it have run, every hook has run
\* exactly once, the committed writes are in the store and there was no
\* further attempt.
C9_HookThrowContained ==
    (commits >= 1 /\ txPc # "committed") =>
        /\ txPc = "returned"
        /\ thrown = NoError
        /\ result = fnResult
        /\ rows = fnResult
        /\ commits = 1 /\ attempts = counter + 1
        /\ Len(ran) = Len(callbacks)
        /\ \A i \in 1..Len(ran) : ran[i][2] = i /\ ran[i][3] = callbacks[i][2]
        /\ logged = Cardinality({i \in 1..Len(callbacks) : callbacks[i][2] = "throws"})

\* The first hook threw, the second ran and emitted, inTx returned.
C9_Witness ==
    /\ txPc = "returned"
    /\ Len(callbacks) = 2
    /\ callbacks[1][2] = "throws"
    /\ callbacks[2][2] = "sync"
    /\ Len(ran) = 2
    /\ events # <<>>
    /\ logged = 1
    /\ rows # {}

\* C10.  A post-commit hook failure is contained also when the hook is
\* asynchronous and fails after its first await: it does not reach the inTx
\* caller and it does not terminate the process.
C10_AsyncHookFailureContained ==
    /\ ~procExited
    /\ commits >= 1 => thrown = NoError

\* ------------------------------------------- concurrent allocateUserSeq calls

\* A caller calls allocateUserSeq(u): the UPDATE is sent to the store.  The
\* call remembers how many calls had completed when it started.
AllocCall(c, u) ==
    /\ callers[c].pc = "idle"
    /\ Len(retLog) + Cardinality({d \in Callers : callers[d].pc = "called"}) < MaxCalls
    /\ callers' = [callers EXCEPT ![c] = [pc |-> "called", u |-> u, floor |-> Len(retLog)]]
    /\ UNCHANGED <<accountSeq, retLog, txVars, occVars, restVars>>

\* storage/seq.ts:12-18  the store runs the UPDATE and the call returns
\* user.seq.
AllocReturn(c) ==
    /\ callers[c].pc = "called"
    /\ accountSeq' = AllocateUserSeq(accountSeq, callers[c].u)
    /\ retLog' = Append(retLog, [u |-> callers[c].u,
                                 val |-> AllocatedSeq(accountSeq, callers[c].u),
                                 floor |-> callers[c].floor])
    /\ callers' = [callers EXCEPT ![c].pc = "idle"]
    /\ UNCHANGED <<txVars, occVars, restVars>>

NextSeq ==
    \/ \E c \in Callers, u \in Users : AllocCall(c, u)
    \/ \E c \in Callers : AllocReturn(c)

InitSeq ==
    /\ accountSeq = [u \in Users |-> 0]
    /\ TxInit
    /\ SeqInit
    /\ OccInit
    /\ RestInit

SpecSeq == InitSeq /\ [][NextSeq]_vars

\* C25.  Hooks registered with afterTx run only after the transaction has
\* committed, never inside it, and they run in the order in which they were
\* registered: while the unit of work or the commit is under way no hook
\* has been called; every registration goes behind the earlier ones of its
\* attempt; and the hooks called are those of the committed attempt, each
\* once, in that order.
C25_HooksAfterCommitInOrder ==
    /\ [](/\ ran # <<>> => commits = 1 /\ txPc = "returned"
          /\ txPc \in {"begin", "fn", "commit", "committed", "catch", "delay", "thrown"}
                => ran = <<>> /\ events = <<>> /\ pending = {}
          /\ txPc = "returned" =>
                /\ Len(ran) = Len(callbacks)
                /\ \A i \in 1..Len(ran) :
                      ran[i] = <<attempts, i, callbacks[i][2]>>)
    /\ [][\A k \in HookKinds :
            FnAfterTx(k) =>
                /\ Len(callbacks') = Len(callbacks) + 1
                /\ SubSeq(callbacks', 1, Len(callbacks)) = callbacks
                /\ callbacks'[Len(callbacks')] = <<attempts, k>>]_vars

\* The first attempt met a conflict; the second registered a synchronous
\* hook and then an asynchronous one and committed; inTx has returned and
\* both were called in that order.
C25_Witness ==
    /\ txPc = "returned"
    /\ counter = 1
    /\ Len(ran) = 2
    /\ ran[1] = <<2, 1, "sync">>
    /\ ran[2] = <<2, 2, "async">>

\* C2.  For every user, the calls of allocateUserSeq return pairwise
\* distinct integers, and each call returns a value strictly greater than
\* the value returned by every call that had completed before it started.
C2_SeqDistinctAndIncreasing ==
    \A i, j \in 1..Len(retLog) :
        retLog[i].u = retLog[j].u =>
            /\ i # j => retLog[i].val # retLog[j].val
            /\ i <= retLog[j].floor => retLog[i].val < retLog[j].val

\* Two calls for one user overlapped (neither had completed when the other
\* started) and a third started after both had completed.
C2_Witness ==
    \E i, j, k \in 1..Len(retLog) :
        /\ i < j /\ j < k
        /\ retLog[i].u = retLog[j].u /\ retLog[j].u = retLog[k].u
        /\ retLog[j].floor < i
        /\ retLog[k].floor >= j

\* --------------------------------------------- concurrent request handlers

\* The account every request of SpecOcc is authenticated as.
OccUser == "u1"

\* Values a client sends.  The empty string is a valid string for every
\* field (z.string(), typeof x === 'string').
Vals == {"", "a"}

\* The expectedVersion of a client's first request.
FirstVersions == {0, 1}

\* An optional reply field that is not sent.
Absent == -1

CasKinds == {"machine-update-metadata", "machine-update-state",
             "account-settings", "access-key"}

ArtifactKinds == {"artifact-header", "artifact-body", "artifact-both"}

\* The column each conditional-update handler writes.
FieldOf(kind) ==
    CASE kind = "machine-update-metadata" -> "metadata"
      [] kind = "machine-update-state"    -> "daemonState"
      [] kind = "account-settings"        -> "settings"
      [] kind = "access-key"              -> "accessKey"
      [] kind = "kv-mutate"               -> "kv"

\* artifactsRoutes.ts:328-331, 356, 365  header / body together with its
\* expected version is present in the request.
HasHeader(kind) == kind \in {"artifact-header", "artifact-both"}

HasBody(kind) == kind \in {"artifact-body", "artifact-both"}

\* JavaScript's  !x  on a string or undefined.
Falsy(x) == x = NULL \/ x = ""

\* JavaScript's  x || d  on a number, and on a string or null.
OrNumber(x, d) == IF x = 0 THEN d ELSE x

OrString(x, d) == IF x = NULL \/ x = "" THEN d ELSE x

\* The requests a client can send: an update of a versioned field with a
\* value and an expected version, or POST /v1/sessions (which has neither).
Requests ==
    [kind : CasKinds \cup ArtifactKinds, value : Vals, ev : FirstVersions]
        \cup {[kind |-> "session-create", value |-> NULL, ev |-> 0]}

\* kvRoutes.ts:146-150  a mutation of POST /v1/kv: value is a string or
\* null (delete), version is -1 for a key that has no row yet.
KvVals == Vals \cup {NULL}

KvVersions == {-1, 0}

\* POST /v1/kv with one mutation.
KvRequests == [kind : {"kv-mutate"}, value : KvVals, ev : KvVersions]

\* A client sends a request: the handler starts and sends its first query.
Submit(w, req) ==
    /\ writers[w].pc = "idle"
    /\ writers' = [writers EXCEPT ![w] =
                     [IdleWriter EXCEPT !.pc = "read", !.kind = req.kind,
                                        !.value = req.value, !.ev = req.ev,
                                        !.evBody = req.ev]]
    /\ UNCHANGED <<accountSeq, fields, machineActive, artifact, sessions,
                   delivered, txVars, seqVars, restVars>>

\* A client that was answered version-mismatch sends the request again with
\* the current version the answer carried.
Retry(w) ==
    /\ writers[w].pc = "done"
    /\ writers[w].reply.result = "version-mismatch"
    /\ writers' = [writers EXCEPT ![w] =
                     [IdleWriter EXCEPT
                        !.pc = "read", !.kind = writers[w].kind,
                        !.value = writers[w].value,
                        !.refused = writers[w].refused,
                        !.ev = IF /\ writers[w].kind \in ArtifactKinds
                                  /\ writers[w].reply.version = Absent
                               THEN writers[w].ev ELSE writers[w].reply.version,
                        !.evBody = IF writers[w].kind \in CasKinds
                                   THEN writers[w].reply.version
                                   ELSE IF writers[w].reply.bodyVersion = Absent
                                        THEN writers[w].evBody
                                        ELSE writers[w].reply.bodyVersion]]
    /\ UNCHANGED <<accountSeq, fields, machineActive, artifact, sessions,
                   delivered, txVars, seqVars, restVars>>

Mismatch(version, value, bodyVersion) ==
    [result |-> "version-mismatch", version |-> version, value |-> value,
     bodyVersion |-> bodyVersion]

Success(version, bodyVersion) ==
    [result |-> "success", version |-> version, value |-> NULL,
     bodyVersion |-> bodyVersion]

\* part_008:287-308, 386-407; accountRoutes.ts:118-138; part_009:222-244.
\* findFirst / findUnique resolves; the handler compares the version it
\* read and answers version-mismatch from that row, or sends updateMany.
CasRead(w) ==
    LET me == writers[w]
        row == fields[FieldOf(me.kind)]
    IN  /\ me.pc = "read"
        /\ me.kind \in CasKinds
        /\ IF row.version # me.ev
           THEN writers' = [writers EXCEPT
                              ![w].pc = "done",
                              ![w].reply = Mismatch(row.version, row.value, 0)]
           ELSE writers' = [writers EXCEPT ![w].pc = "update"]
        /\ UNCHANGED <<accountSeq, fields, machineActive, artifact, sessions,
                       delivered, txVars, seqVars, restVars>>

\* An updateMany whose where clause lacks the version.
CasAppliesAlways(row, ev) == TRUE

\* part_008:311-316, 410-415; accountRoutes.ts:141-145; part_009:247-253.
\* The where clause of updateMany: the row matches iff its version is the
\* expected one.
CasApplies(row, ev) == row.version = ev

\* part_008:311-338, 410-438; accountRoutes.ts:141-164; part_009:247-285.
\* updateMany runs in the store.  count = 1: the handler goes on to
\* allocate the update's seq (the access-key route answers success at
\* once); count = 0: it re-fetches the row.
CasUpdate(w) ==
    LET me == writers[w]
        f == FieldOf(me.kind)
    IN  /\ me.pc = "update"
        /\ me.kind \in CasKinds
        /\ IF CasApplies(fields[f], me.ev)
           THEN /\ fields' = [fields EXCEPT ![f] = [value |-> me.value,
                                                    version |-> me.ev + 1]]
                /\ machineActive' = IF me.kind = "machine-update-state"
                                    THEN TRUE ELSE machineActive
                /\ writers' = IF me.kind = "access-key"
                              THEN [writers EXCEPT ![w].pc = "done",
                                                   ![w].value = NULL,
                                                   ![w].reply = Success(me.ev + 1, 0)]
                              ELSE [writers EXCEPT ![w].pc = "alloc"]
           ELSE /\ writers' = [writers EXCEPT ![w].pc = "refetch",
                                                ![w].refused = TRUE]
                /\ UNCHANGED <<fields, machineActive>>
        /\ UNCHANGED <<accountSeq, artifact, sessions, delivered, txVars, seqVars, restVars>>

\* part_008:332-336, 432-436  version: current?.metadataVersion || 0,
\*                             metadata: current?.metadata
\* accountRoutes.ts:161-162    account?.settingsVersion || 0,
\*                             account?.settings || null
\* part_009:275-276            accessKey?.dataVersion || 0,
\*                             accessKey?.data || ''
RefetchReply(kind, row) ==
    Mismatch(OrNumber(row.version, 0),
             CASE kind = "account-settings" -> OrString(row.value, NULL)
               [] kind = "access-key"       -> OrString(row.value, "")
               [] OTHER                     -> row.value,
             0)

\* part_008:326-337, 426-437; accountRoutes.ts:155-163; part_009:263-277.
\* The re-fetch resolves and the handler answers version-mismatch.
CasRefetch(w) ==
    LET me == writers[w]
    IN  /\ me.pc = "refetch"
        /\ writers' = [writers EXCEPT
                         ![w].pc = "done",
                         ![w].reply = RefetchReply(me.kind, fields[FieldOf(me.kind)])]
        /\ UNCHANGED <<accountSeq, fields, machineActive, artifact, sessions,
                       delivered, txVars, seqVars, restVars>>

\* part_006:70, 90, 117  existing?.value ? ... : null  and
\* mutation.value ? bytes(mutation.value) : null.  A byte array is held as
\* the base64 string that encodes it, as for the artifact's header and
\* body; the empty string is falsy.
KvBytes(value) == IF Falsy(value) THEN NULL ELSE value

\* part_006:84-100  create stores version 0; 103-119  update stores
\* mutation.version + 1.
KvNewVersion(ev) == IF ev = -1 THEN 0 ELSE ev + 1

\* part_006:43-147; inTx.ts:34-46.  The transaction of kvMutate runs and
\* commits (Serializable: no other transaction's writes fall between its
\* reads and its writes).  A version other than the stored one: the errors
\* are returned and nothing is written.  Otherwise the row is created or
\* updated, inTx calls the hook without awaiting it and returns the
\* results: the request is answered while the hook waits for
\* allocateUserSeq.
KvMutate(w) ==
    LET me == writers[w]
        row == fields["kv"]
    IN  /\ me.pc = "read"
        /\ me.kind = "kv-mutate"
        /\ IF row.version # me.ev
           THEN /\ writers' = [writers EXCEPT
                                 ![w].pc = "done",
                                 ![w].reply = Mismatch(row.version, KvBytes(row.value), 0)]
                /\ UNCHANGED fields
           ELSE /\ fields' = [fields EXCEPT !["kv"] =
                                 [value |-> KvBytes(me.value),
                                  version |-> KvNewVersion(me.ev)]]
                /\ writers' = [writers EXCEPT
                                 ![w].pc = "alloc",
                                 ![w].reply = Success(KvNewVersion(me.ev), 0)]
        /\ UNCHANGED <<accountSeq, machineActive, artifact, sessions, delivered,
                       txVars, seqVars, restVars>>

\* eventRouter.ts:245-258, 319-345  emitUpdate towards the user's
\* user-scoped connection, which every filter used here lets through.  The
\* update carries its seq, its body's type and, for a versioned write, the
\* value and the version(s) the handler put in the body.
EmitUpdate(conn, seq, t, value, version, bodyVersion) ==
    Append(conn, [seq |-> seq, t |-> t, value |-> value,
                  version |-> version, bodyVersion |-> bodyVersion])

\* part_008:341-358, 441-458; accountRoutes.ts:167-184;
\* artifactsRoutes.ts:384-396; part_006:136-143.  allocateUserSeq resolves;
\* the handler builds the update with the value of the request and the
\* version it computed, emits it and answers success (kvMutate's hook: the
\* request has been answered already).
AllocEmit(w) ==
    LET me == writers[w]
        success ==
            CASE me.kind \in CasKinds -> Success(me.ev + 1, 0)
              [] me.kind = "kv-mutate" -> me.reply
              [] OTHER -> Success(IF HasHeader(me.kind) THEN me.ev + 1 ELSE Absent,
                                  IF HasBody(me.kind) THEN me.evBody + 1 ELSE Absent)
    IN  /\ me.pc = "alloc"
        /\ accountSeq' = AllocateUserSeq(accountSeq, OccUser)
        /\ delivered' = EmitUpdate(delivered, AllocatedSeq(accountSeq, OccUser),
                                   me.kind, me.value, success.version,
                                   success.bodyVersion)
        /\ writers' = [writers EXCEPT
                         ![w].pc = "done",
                         ![w].value = NULL,
                         ![w].read = 0,
                         ![w].reply = success]
        /\ UNCHANGED <<fields, machineActive, artifact, sessions, txVars, seqVars, restVars>>

\* artifactsRoutes.ts:316-346  findFirst resolves; the handler compares the
\* versions it read and answers version-mismatch, or sends the update.
ArtifactRead(w) ==
    LET me == writers[w]
        headerMismatch == HasHeader(me.kind) /\ artifact.headerVersion # me.ev
        bodyMismatch == HasBody(me.kind) /\ artifact.bodyVersion # me.evBody
    IN  /\ me.pc = "read"
        /\ me.kind \in ArtifactKinds
        /\ IF headerMismatch \/ bodyMismatch
           THEN writers' = [writers EXCEPT
                              ![w].pc = "done",
                              ![w].reply = Mismatch(
                                  IF headerMismatch THEN artifact.headerVersion ELSE Absent,
                                  IF headerMismatch THEN artifact.header ELSE NULL,
                                  IF bodyMismatch THEN artifact.bodyVersion ELSE Absent)]
           ELSE writers' = [writers EXCEPT ![w].pc = "update",
                                           ![w].read = artifact.seq]
        /\ UNCHANGED <<accountSeq, fields, machineActive, artifact, sessions,
                       delivered, txVars, seqVars, restVars>>

\* artifactsRoutes.ts:349-381  db.artifact.update({ where: { id }, data })
\* runs in the store: the where clause holds the id alone.
ArtifactUpdate(w) ==
    LET me == writers[w]
    IN  /\ me.pc = "update"
        /\ me.kind \in ArtifactKinds
        /\ artifact' =
             [header |-> IF HasHeader(me.kind) THEN me.value ELSE artifact.header,
              headerVersion |-> IF HasHeader(me.kind) THEN me.ev + 1
                                ELSE artifact.headerVersion,
              body |-> IF HasBody(me.kind) THEN me.value ELSE artifact.body,
              bodyVersion |-> IF HasBody(me.kind) THEN me.evBody + 1
                              ELSE artifact.bodyVersion,
              seq |-> me.read + 1]
        /\ writers' = [writers EXCEPT ![w].pc = "alloc"]
        /\ UNCHANGED <<accountSeq, fields, machineActive, sessions, delivered,
                       txVars, seqVars, restVars>>

\* sessionRoutes.ts:262-289  findFirst by tag resolves: an existing session
\* is returned, otherwise the handler sends allocateUserSeq.
SessionFind(w) ==
    LET me == writers[w]
    IN  /\ me.pc = "read"
        /\ me.kind = "session-create"
        /\ IF sessions > 0
           THEN writers' = [writers EXCEPT
                              ![w].pc = "done",
                              ![w].value = NULL,
                              ![w].reply = [NoReply EXCEPT !.result = "existing"]]
           ELSE writers' = [writers EXCEPT ![w].pc = "seq"]
        /\ UNCHANGED <<accountSeq, fields, machineActive, artifact, sessions,
                       delivered, txVars, seqVars, restVars>>

\* sessionRoutes.ts:289-300  allocateUserSeq resolves: the handler keeps
\* updSeq and sends db.session.create.
SessionAllocate(w) ==
    LET me == writers[w]
    IN  /\ me.pc = "seq"
        /\ accountSeq' = AllocateUserSeq(accountSeq, OccUser)
        /\ writers' = [writers EXCEPT
                         ![w].pc = "create",
                         ![w].updSeq = AllocatedSeq(accountSeq, OccUser)]
        /\ UNCHANGED <<fields, machineActive, artifact, sessions, delivered,
                       txVars, seqVars, restVars>>

\* sessionRoutes.ts:293-332  the create resolves: the handler emits
\* new-session with the seq it allocated before the create and answers.
\* The schema is not part of the sources: the store either accepts a second
\* session with the tag, or has a unique index on (accountId, tag) and
\* refuses it, and the request then fails with the store's error.
SessionCreate(w) ==
    LET me == writers[w]
    IN  /\ me.pc = "create"
        /\ \E uniqueTag \in BOOLEAN :
              IF uniqueTag /\ sessions > 0
              THEN /\ writers' = [writers EXCEPT
                                    ![w].pc = "done",
                                    ![w].value = NULL,
                                    ![w].updSeq = 0,
                                    ![w].reply = [NoReply EXCEPT !.result = "error"]]
                   /\ UNCHANGED <<sessions, delivered>>
              ELSE /\ sessions' = sessions + 1
                   /\ delivered' = EmitUpdate(delivered, me.updSeq, me.kind, NULL, 0, 0)
                   /\ writers' = [writers EXCEPT
                                    ![w].pc = "done",
                                    ![w].value = NULL,
                                    ![w].updSeq = 0,
                                    ![w].reply = [NoReply EXCEPT !.result = "created"]]
        /\ UNCHANGED <<accountSeq, fields, machineActive, artifact, txVars, seqVars, restVars>>

NextOcc ==
    \/ \E w \in Writers, req \in Requests : Submit(w, req)
    \/ \E w \in Writers : Retry(w)
    \/ \E w \in Writers : CasRead(w)
    \/ \E w \in Writers : CasUpdate(w)
    \/ \E w \in Writers : CasRefetch(w)
    \/ \E w \in Writers : AllocEmit(w)
    \/ \E w \in Writers : ArtifactRead(w)
    \/ \E w \in Writers : ArtifactUpdate(w)
    \/ \E w \in Writers : SessionFind(w)
    \/ \E w \in Writers : SessionAllocate(w)
    \/ \E w \in Writers : SessionCreate(w)

InitOcc ==
    /\ accountSeq = [u \in Users |-> 0]
    /\ TxInit
    /\ SeqInit
    /\ OccInit
    /\ RestInit

SpecOcc == InitOcc /\ [][NextOcc]_vars

\* The handlers of SpecOcc together with POST /v1/kv.
NextWrites ==
    \/ \E w \in Writers, req \in Requests \cup KvRequests : Submit(w, req)
    \/ \E w \in Writers : Retry(w)
    \/ \E w \in Writers : CasRead(w)
    \/ \E w \in Writers : CasUpdate(w)
    \/ \E w \in Writers : CasRefetch(w)
    \/ \E w \in Writers : KvMutate(w)
    \/ \E w \in Writers : AllocEmit(w)
    \/ \E w \in Writers : ArtifactRead(w)
    \/ \E w \in Writers : ArtifactUpdate(w)
    \/ \E w \in Writers : SessionFind(w)
    \/ \E w \in Writers : SessionAllocate(w)
    \/ \E w \in Writers : SessionCreate(w)

InitWrites == InitOcc

SpecWrites == InitWrites /\ [][NextWrites]_vars

\* ------------------------------------------------- kvMutate with batches

\* A pre-validation that lets version -1 through unchecked.
KvErrorsSkipCreate(store, batch) ==
    LET bad == SelectSeq(batch, LAMBDA m : m.version # -1
                                            /\ store[m.key].version # m.version)
    IN  [i \in 1..Len(bad) |->
            [key |-> bad[i].key, error |-> "version-mismatch",
             version |-> store[bad[i].key].version,
             value |-> KvBytes(store[bad[i].key].value)]]

\* part_006:50-73  the pre-validation loop: one error per mutation whose
\* version is not the stored one, with the stored version and value.
KvErrors(store, batch) ==
    LET bad == SelectSeq(batch, LAMBDA m : store[m.key].version # m.version)
    IN  [i \in 1..Len(bad) |->
            [key |-> bad[i].key, error |-> "version-mismatch",
             version |-> store[bad[i].key].version,
             value |-> KvBytes(store[bad[i].key].value)]]

\* part_006:84-119  one mutation inside the transaction.  create fails on
\* the unique key (accountId, key) when the row exists, update fails when
\* it does not: ok is then FALSE and the transaction is rolled back.
KvApplyOne(tx, m) ==
    IF m.version = -1
    THEN [rows |-> [tx.rows EXCEPT ![m.key] = [value |-> KvBytes(m.value), version |-> 0]],
          ok |-> tx.ok /\ tx.rows[m.key] = NoRow]
    ELSE [rows |-> [tx.rows EXCEPT ![m.key] = [value |-> KvBytes(m.value),
                                               version |-> m.version + 1]],
          ok |-> tx.ok /\ tx.rows[m.key] # NoRow]

\* part_006:83-133  the apply loop over the first n mutations of the batch.
RECURSIVE KvApply(_, _, _)
KvApply(store, batch, n) ==
    IF n = 0 THEN [rows |-> store, ok |-> TRUE]
    ELSE KvApplyOne(KvApply(store, batch, n - 1), batch[n])

\* part_006:98-102, 126-130  changes.push({ key, value: mutation.value,
\* version: result.version })
KvChanges(batch) ==
    [i \in 1..Len(batch) |->
        [key |-> batch[i].key, value |-> batch[i].value,
         version |-> KvNewVersion(batch[i].version)]]

\* part_006:93-96, 121-124  results.push({ key, version: result.version })
KvResults(batch) ==
    [i \in 1..Len(batch) |->
        [key |-> batch[i].key, version |-> KvNewVersion(batch[i].version)]]

\* part_006:43-147; inTx.ts:34-46; kvRoutes.ts:179-195.  One call of
\* kvMutate: the transaction runs and commits or is rolled back
\* (Serializable: no other transaction's writes fall between its reads and
\* its writes).  Errors of the pre-validation are returned with nothing
\* written; a failed create or update rejects the call with nothing
\* written; otherwise the rows are committed, inTx calls the hook without
\* awaiting it and the results are returned.
KvCall(batch) ==
    LET errors == KvErrors(kvStore, batch)
        tx == KvApply(kvStore, batch, Len(batch))
    IN  /\ kvCalls < MaxKvCalls
        /\ Len(kvHooks) < MaxHooks
        /\ kvCalls' = kvCalls + 1
        /\ IF errors # <<>>
           THEN /\ kvReply' = [result |-> "errors", errors |-> errors, results |-> <<>>]
                /\ UNCHANGED <<kvStore, kvHooks>>
           ELSE IF ~tx.ok
           THEN /\ kvReply' = [result |-> "failed", errors |-> <<>>, results |-> <<>>]
                /\ UNCHANGED <<kvStore, kvHooks>>
           ELSE /\ kvStore' = tx.rows
                /\ kvHooks' = Append(kvHooks, KvChanges(batch))
                /\ kvReply' = [result |-> "success", errors |-> <<>>,
                               results |-> KvResults(batch)]
        /\ UNCHANGED <<kvEvent, accountSeq, txVars, seqVars, occVars, connVars, cacheVars, ephVars, auxVars>>

\* part_006:136-143  the allocateUserSeq of one waiting hook resolves and
\* the hook emits the batch's kv-batch-update.
KvHook(i) ==
    /\ i \in 1..Len(kvHooks)
    /\ accountSeq' = AllocateUserSeq(accountSeq, OccUser)
    /\ kvEvent' = [seq |-> AllocatedSeq(accountSeq, OccUser), changes |-> kvHooks[i]]
    /\ kvHooks' = [j \in 1..(Len(kvHooks) - 1) |->
                      IF j < i THEN kvHooks[j] ELSE kvHooks[j + 1]]
    /\ UNCHANGED <<kvStore, kvReply, kvCalls, txVars, seqVars, occVars, connVars, cacheVars, ephVars, auxVars>>

NextKv ==
    \/ \E batch \in Batches : KvCall(batch)
    \/ \E i \in 1..MaxHooks : KvHook(i)

InitKv ==
    /\ accountSeq = [u \in Users |-> 0]
    /\ TxInit
    /\ SeqInit
    /\ OccInit
    /\ RestInit

SpecKv == InitKv /\ [][NextKv]_vars

\* ------------------------------------------ claims about the handlers

\* The conditional write of writer w's current request was applied.
Applied(w) ==
    /\ writers[w].kind \in CasKinds
    /\ \/ writers[w].pc = "alloc"
       \/ writers[w].pc = "done" /\ writers[w].reply.result = "success"

AppliedTo(f) == {w \in Writers : Applied(w) /\ FieldOf(writers[w].kind) = f}

\* C3.  Of the writers that update one versioned field (machine metadata,
\* machine daemon state, account settings, access-key data) with the same
\* expectedVersion, exactly one is applied and the others are answered
\* version-mismatch with a version other than the one they expected; the
\* stored version is the initial version plus the number of applied
\* writes, so N writers that retry until applied end with version N.
C3_CasConverges ==
    /\ \A f \in Fields : fields[f].version = Cardinality(AppliedTo(f))
    /\ \A f \in Fields : \A v, w \in AppliedTo(f) :
          v # w => writers[v].ev # writers[w].ev
    /\ \A w \in Writers :
          (writers[w].kind \in CasKinds /\ writers[w].pc = "done"
              /\ writers[w].reply.result = "version-mismatch")
          => writers[w].reply.version # writers[w].ev
    /\ \A w \in Writers :
          (writers[w].kind \in CasKinds /\ writers[w].pc = "refetch")
          => fields[FieldOf(writers[w].kind)].version > writers[w].ev

\* Every writer updated the account settings; all passed the version check
\* of the read with expectedVersion 0, one was applied, the others were
\* refused by the conditional write, retried and were applied: the stored
\* version is the number of writers.
C3_Witness ==
    /\ \A w \in Writers :
          /\ writers[w].kind = "account-settings"
          /\ writers[w].pc = "done"
          /\ writers[w].reply.result = "success"
    /\ {writers[w].ev : w \in Writers} = 0..(NumWriters - 1)
    /\ \A w \in Writers : writers[w].ev > 0 => writers[w].refused
    /\ fields["settings"].version = NumWriters
    /\ Len(delivered) = NumWriters

\* Writer w was answered version-mismatch in this step.
AnsweredMismatch(w) ==
    /\ writers[w].kind \in CasKinds
    /\ writers[w].pc # "done"
    /\ writers'[w].pc = "done"
    /\ writers'[w].reply.result = "version-mismatch"

\* C4.  An update of a versioned field whose expectedVersion differs from
\* the stored version leaves the stored value and version unchanged and is
\* answered version-mismatch with the value and version that are in the
\* store.
C4_StaleUpdateAnswersCurrent ==
    [][\A w \in Writers :
          AnsweredMismatch(w) =>
              /\ fields' = fields
              /\ writers'[w].reply.version = fields[FieldOf(writers[w].kind)].version
              /\ writers'[w].reply.value = fields[FieldOf(writers[w].kind)].value]_vars

\* Writer w's artifact update is written to the store in this step.
ArtifactWritten(w) ==
    /\ writers[w].kind \in ArtifactKinds
    /\ writers[w].pc = "update"
    /\ writers'[w].pc = "alloc"

\* C5.  An artifact update is applied iff its expectedHeaderVersion /
\* expectedBodyVersion equals the stored version at the instant of the
\* write, so of two concurrent updates carrying the same expected version at
\* most one is applied.
C5_ArtifactCas ==
    [][\A w \in Writers :
          ArtifactWritten(w) =>
              /\ HasHeader(writers[w].kind) => artifact.headerVersion = writers[w].ev
              /\ HasBody(writers[w].kind) => artifact.bodyVersion = writers[w].evBody]_vars

\* C6.  The Update events delivered to one connection of a user arrive in
\* non-decreasing seq order.
C6_DeliveredInSeqOrder ==
    \A i, j \in 1..Len(delivered) :
        i < j => delivered[i].seq <= delivered[j].seq

\* The new-session events delivered so far.
NewSessionEvents == {i \in 1..Len(delivered) : delivered[i].t = "session-create"}

\* C26.  POST /v1/sessions is idempotent per (user, tag): for any number of
\* requests with the same tag, sequential or concurrent, at most one session
\* with that tag exists for the user, every request returns that session
\* (the one it created or the one it found), and the new-session event is
\* emitted at most once.
C26_SessionCreateIdempotent ==
    /\ sessions <= 1
    /\ Cardinality(NewSessionEvents) <= 1
    /\ \A w \in Writers :
          writers[w].kind = "session-create" /\ writers[w].pc = "done" =>
              /\ writers[w].reply.result \in {"created", "existing"}
              /\ sessions = 1

\* C19.  A sequence number is allocated for an Update event only after the
\* mutation the event announces has been written: every step that advances
\* the account's seq is taken by a handler whose write is already in the
\* store and that emits the event in the same step.
C19_AllocatedAfterWrite ==
    [][accountSeq'[OccUser] # accountSeq[OccUser] =>
          \E w \in Writers : writers[w].pc = "alloc" /\ writers'[w].pc = "done"]_vars

\* The versioned writes that are announced by an Update event.
EventKinds ==
    {"machine-update-metadata", "machine-update-state", "account-settings",
     "kv-mutate"} \cup ArtifactKinds

\* Writer w's versioned write is applied to the store in this step.
WriteApplied(w) ==
    /\ writers[w].kind \in EventKinds
    /\ writers[w].pc # "alloc"
    /\ writers'[w].pc = "alloc"

\* The store holds, after the step, the value of w's request under the
\* version that follows the expected one.
StoreHoldsRequest(w) ==
    LET me == writers[w]
    IN  CASE me.kind = "kv-mutate" ->
               fields'["kv"] = [value |-> me.value,
                                version |-> IF me.ev = -1 THEN 0 ELSE me.ev + 1]
          [] me.kind \in ArtifactKinds ->
               /\ HasHeader(me.kind) =>
                     /\ artifact'.header = me.value
                     /\ artifact'.headerVersion = me.ev + 1
               /\ HasBody(me.kind) =>
                     /\ artifact'.body = me.value
                     /\ artifact'.bodyVersion = me.evBody + 1
          [] OTHER ->
               fields'[FieldOf(me.kind)] = [value |-> me.value, version |-> me.ev + 1]

\* The Update event of w's write: the value of the request and the new
\* version(s).
EventOf(w, seq) ==
    LET me == writers[w]
    IN  [seq |-> seq, t |-> me.kind, value |-> me.value,
         version |-> CASE me.kind = "kv-mutate" -> IF me.ev = -1 THEN 0 ELSE me.ev + 1
                       [] me.kind \in ArtifactKinds ->
                            IF HasHeader(me.kind) THEN me.ev + 1 ELSE Absent
                       [] OTHER -> me.ev + 1,
         bodyVersion |-> CASE me.kind \in ArtifactKinds ->
                                IF HasBody(me.kind) THEN me.evBody + 1 ELSE Absent
                           [] OTHER -> 0]

\* C20.  Every applied versioned write (machine metadata, machine daemon
\* state, account settings, artifact update, KV batch) emits exactly one
\* Update event for the owning user, carrying the written value and the new
\* version: the write stores the request's value under the new version,
\* the handler keeps both until the allocation resolves, and then one
\* event with the next seq, that value and that version is delivered.  An
\* operation answered version-mismatch delivers no event and allocates no
\* seq, and no event of a versioned write is delivered in any other step.
C20_AppliedWriteEmitsOnce ==
    [][/\ \A w \in Writers :
            /\ WriteApplied(w) =>
                  /\ StoreHoldsRequest(w)
                  /\ delivered' = delivered
                  /\ writers'[w].value = writers[w].value
                  /\ writers'[w].ev = writers[w].ev
                  /\ writers'[w].evBody = writers[w].evBody
            /\ writers[w].kind \in EventKinds /\ writers[w].pc = "alloc" =>
                  \/ writers'[w] = writers[w]
                  \/ /\ writers'[w].pc = "done"
                     /\ writers'[w].reply.result = "success"
                     /\ accountSeq'[OccUser] = accountSeq[OccUser] + 1
                     /\ delivered' = Append(delivered, EventOf(w, accountSeq'[OccUser]))
            /\ AnsweredMismatch(w) \/ (writers[w].kind = "kv-mutate"
                                         /\ writers[w].pc = "read"
                                         /\ writers'[w].pc = "done") =>
                  /\ delivered' = delivered
                  /\ accountSeq' = accountSeq
       /\ delivered' # delivered =>
            \E w \in Writers :
                /\ writers[w].pc \in {"alloc", "create"}
                /\ writers'[w].pc = "done"
                /\ Len(delivered') = Len(delivered) + 1]_vars

\* Writer w's conditional write is applied to the store in this step (the
\* access-key route answers in the same step).
VersionedWrite(w) ==
    /\ writers[w].kind \in CasKinds \cup ArtifactKinds \cup {"kv-mutate"}
    /\ writers[w].pc \in {"read", "update"}
    /\ \/ writers'[w].pc = "alloc"
       \/ writers'[w].pc = "done" /\ writers'[w].reply.result = "success"

\* The stored versions the request of kind names, before and after the step.
VersionsBefore(kind) ==
    IF kind \in ArtifactKinds
    THEN (IF HasHeader(kind) THEN {artifact.headerVersion} ELSE {})
            \cup (IF HasBody(kind) THEN {artifact.bodyVersion} ELSE {})
    ELSE {fields[FieldOf(kind)].version}

VersionsAfter(kind) ==
    IF kind \in ArtifactKinds
    THEN (IF HasHeader(kind) THEN {artifact'.headerVersion} ELSE {})
            \cup (IF HasBody(kind) THEN {artifact'.bodyVersion} ELSE {})
    ELSE {fields'[FieldOf(kind)].version}

\* C21.  The version of every versioned field never decreases and grows by
\* exactly 1 with each applied write: an applied write with expectedVersion
\* v finds the stored version v and leaves v + 1, and the success response
\* and the emitted event report v + 1.
C21_VersionGrowsByOne ==
    [][/\ \A f \in Columns : fields'[f].version >= fields[f].version
       /\ artifact'.headerVersion >= artifact.headerVersion
       /\ artifact'.bodyVersion >= artifact.bodyVersion
       /\ \A w \in Writers :
            /\ VersionedWrite(w) =>
                  /\ HasHeader(writers[w].kind) =>
                        /\ artifact.headerVersion = writers[w].ev
                        /\ artifact'.headerVersion = writers[w].ev + 1
                  /\ HasBody(writers[w].kind) =>
                        /\ artifact.bodyVersion = writers[w].evBody
                        /\ artifact'.bodyVersion = writers[w].evBody + 1
                  /\ writers[w].kind \notin ArtifactKinds =>
                        /\ VersionsBefore(writers[w].kind) = {writers[w].ev}
                        /\ VersionsAfter(writers[w].kind) = {writers[w].ev + 1}
            /\ (writers[w].pc # "done" /\ writers'[w].pc = "done"
                    /\ writers'[w].reply.result = "success") =>
                  /\ writers[w].kind \notin ArtifactKinds =>
                        writers'[w].reply.version = writers[w].ev + 1
                  /\ HasHeader(writers[w].kind) =>
                        writers'[w].reply.version = writers[w].ev + 1
                  /\ HasBody(writers[w].kind) =>
                        writers'[w].reply.bodyVersion = writers[w].evBody + 1
            /\ (writers[w].pc = "alloc" /\ writers'[w].pc = "done") =>
                  /\ Len(delivered') = Len(delivered) + 1
                  /\ LET e == delivered'[Len(delivered')]
                     IN  /\ writers[w].kind \notin ArtifactKinds =>
                               e.version = writers[w].ev + 1
                         /\ HasHeader(writers[w].kind) =>
                               e.version = writers[w].ev + 1
                         /\ HasBody(writers[w].kind) =>
                               e.bodyVersion = writers[w].evBody + 1]_vars

\* The mutations of the batch whose version is not the stored one.
Mismatching(batch) ==
    {i \in 1..Len(batch) : kvStore[batch[i].key].version # batch[i].version}

\* The latest mutation of its key in the batch.
LastOfKey(batch, i) == \A j \in 1..Len(batch) : batch[j].key = batch[i].key => j <= i

\* C22.  kvMutate applies a batch atomically.  If the version supplied for
\* any key differs from the stored version of that key (-1 for an absent
\* key), no key is created or changed, no event is emitted and every
\* mismatching key is reported with its current version and value;
\* otherwise all mutations of the batch are applied in one committed
\* transaction and a single kv-batch-update event is emitted for all of
\* them.
C22_BatchIsAtomic ==
    [][/\ \A batch \in Batches :
            KvCall(batch) =>
                IF Mismatching(batch) # {}
                THEN /\ kvStore' = kvStore
                     /\ kvHooks' = kvHooks
                     /\ kvEvent' = kvEvent
                     /\ kvReply'.result = "errors"
                     /\ {[key |-> e.key, version |-> e.version, value |-> e.value] :
                             e \in {kvReply'.errors[n] : n \in 1..Len(kvReply'.errors)}}
                          = {[key |-> batch[i].key,
                              version |-> kvStore[batch[i].key].version,
                              value |-> kvStore[batch[i].key].value] :
                                i \in Mismatching(batch)}
                ELSE /\ kvReply'.result = "success"
                     /\ \A i \in 1..Len(batch) :
                           LastOfKey(batch, i) =>
                               kvStore'[batch[i].key] =
                                   [value |-> batch[i].value,
                                    version |-> IF batch[i].version = -1 THEN 0
                                                ELSE batch[i].version + 1]
                     /\ \A k \in Keys :
                           (\A i \in 1..Len(batch) : batch[i].key # k) =>
                               kvStore'[k] = kvStore[k]
                     /\ Len(kvHooks') = Len(kvHooks) + 1
                     /\ LET changes == kvHooks'[Len(kvHooks')]
                        IN  /\ Len(changes) = Len(batch)
                            /\ \A i \in 1..Len(batch) :
                                  /\ changes[i].key = batch[i].key
                                  /\ changes[i].value = batch[i].value
       /\ \A i \in 1..Len(kvHooks) :
            KvHook(i) =>
                /\ kvEvent'.changes = kvHooks[i]
                /\ kvEvent'.seq = accountSeq[OccUser] + 1
                /\ Len(kvHooks') = Len(kvHooks) - 1
       /\ kvEvent' # kvEvent => Len(kvHooks') = Len(kvHooks) - 1]_vars

Verified(token) ==
    CASE token = "t1" -> "u1"
      [] token = "t2" -> "u2"
      [] OTHER        -> NULL

\* A handshake that tests the token alone.
RejectsHandshakeTokenOnly(auth) == Falsy(auth.token)

\* socket.ts:64-85  the tests made before the token is verified.
RejectsHandshake(auth) ==
    \/ Falsy(auth.token)
    \/ auth.clientType = "session-scoped" /\ Falsy(auth.sessionId)
    \/ auth.clientType = "machine-scoped" /\ Falsy(auth.machineId)

\* socket.ts:100-125  the connection object built for a verified socket.
BuildConnection(s, userId, auth) ==
    LET clientType == IF Falsy(auth.clientType) THEN "user-scoped" ELSE auth.clientType
    IN  IF clientType = "session-scoped" /\ ~Falsy(auth.sessionId)
        THEN [connectionType |-> "session-scoped", socket |-> s, userId |-> userId,
              sessionId |-> auth.sessionId, machineId |-> NULL]
        ELSE IF clientType = "machine-scoped" /\ ~Falsy(auth.machineId)
        THEN [connectionType |-> "machine-scoped", socket |-> s, userId |-> userId,
              sessionId |-> NULL, machineId |-> auth.machineId]
        ELSE [connectionType |-> "user-scoped", socket |-> s, userId |-> userId,
              sessionId |-> NULL, machineId |-> NULL]

\* eventRouter.ts:219-224.  A user without connections has no key in the
\* map; here the user's set is empty.
AddConnection(conns, userId, connection) ==
    [conns EXCEPT ![userId] = @ \cup {connection}]

\* eventRouter.ts:227-235
RemoveConnection(conns, userId, connection) ==
    [conns EXCEPT ![userId] = @ \ {connection}]

\* A filter under which machine-scoped connections are not excluded from
\* session updates.
ShouldSendMachinesToo(connection, filter) ==
    CASE filter.type = "all-interested-in-session" ->
            IF connection.connectionType = "session-scoped"
            THEN connection.sessionId = filter.sessionId
            ELSE TRUE
      [] filter.type = "user-scoped-only" ->
            connection.connectionType = "user-scoped"
      [] filter.type = "machine-scoped-only" ->
            IF connection.connectionType = "user-scoped" THEN TRUE
            ELSE IF connection.connectionType = "machine-scoped"
                 THEN connection.machineId = filter.machineId
                 ELSE FALSE
      [] filter.type = "all-user-authenticated-connections" -> TRUE
      [] OTHER -> FALSE

\* eventRouter.ts:279-316
ShouldSendToConnection(connection, filter) ==
    CASE filter.type = "all-interested-in-session" ->
            IF connection.connectionType = "session-scoped"
            THEN connection.sessionId = filter.sessionId
            ELSE IF connection.connectionType = "machine-scoped"
                 THEN FALSE
                 ELSE TRUE
      [] filter.type = "user-scoped-only" ->
            connection.connectionType = "user-scoped"
      [] filter.type = "machine-scoped-only" ->
            IF connection.connectionType = "user-scoped" THEN TRUE
            ELSE IF connection.connectionType = "machine-scoped"
                 THEN connection.machineId = filter.machineId
                 ELSE FALSE
      [] filter.type = "all-user-authenticated-connections" -> TRUE
      [] OTHER -> FALSE

\* eventRouter.ts:255, 271  recipientFilter || all-user-authenticated-connections
DefaultFilter(filter) ==
    IF filter = NoFilter
    THEN [type |-> "all-user-authenticated-connections",
          sessionId |-> NULL, machineId |-> NULL]
    ELSE filter

\* An emit loop over the connections of every user.
RecipientsOfAnyUser(conns, userId, filter, skip) ==
    {c \in UNION {conns[u] : u \in Users} :
        c \notin skip /\ ShouldSendToConnection(c, filter)}

\* An emit loop without the echo test.
RecipientsWithSender(conns, userId, filter, skip) ==
    {c \in conns[userId] : ShouldSendToConnection(c, filter)}

\* eventRouter.ts:326-344  the connections of the user that emit pushes to:
\* not the sender's own connection, and those the filter lets through.
Recipients(conns, userId, filter, skip) ==
    {c \in conns[userId] : c \notin skip /\ ShouldSendToConnection(c, filter)}

\* eventRouter.ts:343  connection.socket.emit(eventName, payload)
Push(sent, to) ==
    [s \in Sockets |-> sent[s] + Cardinality({c \in to : c.socket = s})]

\* eventRouter.ts:245-274, 319-345  emitUpdate / emitEphemeral on the
\* registry conns.
RouterEmit(conns, userId, filter, skip, payload) ==
    /\ sentTo' = Push(sentTo, Recipients(conns, userId, DefaultFilter(filter), skip))
    /\ lastEmit' = [userId |-> userId, filter |-> DefaultFilter(filter), skip |-> skip,
                    payload |-> payload]
    /\ emitCount' = emitCount + 1

\* eventRouter.ts:521-528  buildMachineActivityEphemeral.
MachineActivityEphemeral(machineId, active, at) ==
    [type |-> "machine-activity", id |-> machineId, active |-> active, activeAt |-> at]

\* socket.ts:96-163  the handler's part after the token was verified: the
\* connection is built and added, a machine-scoped connection is announced
\* to the user-scoped ones, and the disconnect listener is registered.
Accept(s, userId, auth) ==
    LET connection == BuildConnection(s, userId, auth)
        conns == AddConnection(userConnections, userId, connection)
    IN  /\ userConnections' = conns
        /\ IF connection.connectionType = "machine-scoped"
           THEN RouterEmit(conns, userId, UserScopedOnly, {},
                           MachineActivityEphemeral(connection.machineId, TRUE, now))
           ELSE UNCHANGED <<sentTo, lastEmit, emitCount>>

\* socket.ts:55-88  a socket connects and the connection handler runs up to
\* await auth.verifyToken.  auth.ts:108-114: a cached token is answered
\* without any I/O, so the handler goes on before any other event is handled.
Connect(s, auth) ==
    /\ sockets[s].pc = "none"
    /\ IF RejectsHandshake(auth)
       THEN /\ sockets' = [sockets EXCEPT ![s] = [pc |-> "rejected", auth |-> auth,
                                                 connected |-> FALSE,
                                                 listening |-> FALSE]]
            /\ UNCHANGED <<userConnections, sentTo, lastEmit, emitCount>>
       ELSE IF auth.token \in tokenCache
       THEN /\ sockets' = [sockets EXCEPT ![s] = [pc |-> "active", auth |-> auth,
                                                 connected |-> TRUE,
                                                 listening |-> TRUE]]
            /\ Accept(s, Verified(auth.token), auth)
       ELSE /\ sockets' = [sockets EXCEPT ![s] = [pc |-> "verifying", auth |-> auth,
                                                 connected |-> TRUE,
                                                 listening |-> FALSE]]
            /\ UNCHANGED <<userConnections, sentTo, lastEmit, emitCount>>
    /\ UNCHANGED <<tokenCache, accountSeq, txVars, seqVars, occVars, cacheVars, kvVars, ephVars, auxVars>>

\* socket.ts:88-163, auth.ts:122-142  the verification resolves.
VerifyDone(s) ==
    LET auth == sockets[s].auth
        userId == Verified(auth.token)
    IN  /\ sockets[s].pc = "verifying"
        /\ IF userId = NULL
           THEN /\ sockets' = [sockets EXCEPT ![s].pc = "rejected",
                                              ![s].connected = FALSE]
                /\ UNCHANGED <<userConnections, tokenCache, sentTo, lastEmit, emitCount>>
           ELSE /\ sockets' = [sockets EXCEPT ![s].pc = "active",
                                              ![s].listening = TRUE]
                /\ tokenCache' = tokenCache \cup {auth.token}
                /\ Accept(s, userId, auth)
        /\ UNCHANGED <<accountSeq, txVars, seqVars, occVars, cacheVars, kvVars, ephVars, auxVars>>

\* socket.ts:145-163  the socket disconnects.  The listener, if it was
\* registered before, removes the connection and announces a machine-scoped
\* connection's end; a disconnect before that reaches no listener.
Disconnect(s) ==
    LET auth == sockets[s].auth
        userId == Verified(auth.token)
        connection == BuildConnection(s, userId, auth)
        conns == RemoveConnection(userConnections, userId, connection)
    IN  /\ sockets[s].connected
        /\ sockets' = [sockets EXCEPT ![s].connected = FALSE]
        /\ IF sockets[s].listening
           THEN /\ userConnections' = conns
                /\ IF connection.connectionType = "machine-scoped"
                   THEN RouterEmit(conns, userId, UserScopedOnly, {},
                                   MachineActivityEphemeral(connection.machineId,
                                                            FALSE, now))
                   ELSE UNCHANGED <<sentTo, lastEmit, emitCount>>
           ELSE UNCHANGED <<userConnections, sentTo, lastEmit, emitCount>>
        /\ UNCHANGED <<tokenCache, accountSeq, txVars, seqVars, occVars, cacheVars, kvVars, ephVars, auxVars>>

\* A request handler calls emitUpdate / emitEphemeral for a user, with or
\* without a filter, with or without the sender's connection to skip.
HandlerEmit(userId, filter, skip) ==
    /\ emitCount < MaxEmits
    /\ RouterEmit(userConnections, userId, filter, skip, NoPayload)
    /\ UNCHANGED <<sockets, userConnections, tokenCache, accountSeq,
                   txVars, seqVars, occVars, cacheVars, kvVars, ephVars, auxVars>>

NextConn ==
    \/ \E s \in Sockets, auth \in Auths : Connect(s, auth)
    \/ \E s \in Sockets : VerifyDone(s)
    \/ \E s \in Sockets : Disconnect(s)
    \/ \E userId \in Users, filter \in Filters \cup {NoFilter} :
         \E skip \in {{}} \cup {{c} : c \in userConnections[userId]} :
            HandlerEmit(userId, filter, skip)

InitConn ==
    /\ accountSeq = [u \in Users |-> 0]
    /\ TxInit
    /\ SeqInit
    /\ OccInit
    /\ RestInit

SpecConn == InitConn /\ [][NextConn]_vars

\* ------------------------------------------- claims about the socket server

\* The connection of socket s that the registry holds, if any.
Registered(s) == {c \in UNION {userConnections[u] : u \in Users} : c.socket = s}

\* The delivery table: which connections a filter reaches.
TableDelivers(c, f) ==
    \/ /\ f.type = "all-interested-in-session"
       /\ \/ c.connectionType = "user-scoped"
          \/ c.connectionType = "session-scoped" /\ c.sessionId = f.sessionId
    \/ /\ f.type = "user-scoped-only"
       /\ c.connectionType = "user-scoped"
    \/ /\ f.type = "machine-scoped-only"
       /\ \/ c.connectionType = "user-scoped"
          \/ c.connectionType = "machine-scoped" /\ c.machineId = f.machineId
    \/ f.type = "all-user-authenticated-connections"

\* C11.  Every emit call pushes the event to exactly the connections of the
\* addressed user that the delivery table names for the filter (the sender's
\* own connection left out when the caller asks for it): under
\* all-interested-in-session(sid) the user-scoped connections and the
\* session-scoped ones of session sid, no machine-scoped one; under
\* user-scoped-only the user-scoped ones; under machine-scoped-only(mid) the
\* user-scoped ones and the machine-scoped ones of machine mid, no
\* session-scoped one; under all-user-authenticated-connections all of them.
\* No other socket is pushed anything.
C11_DeliveryMatchesTable ==
    [][emitCount' = emitCount + 1 =>
        \A s \in Sockets :
            (sentTo'[s] = sentTo[s] + 1) <=>
                \E c \in userConnections'[lastEmit'.userId] :
                    /\ c.socket = s
                    /\ c \notin lastEmit'.skip
                    /\ TableDelivers(c, lastEmit'.filter)
            /\ sentTo'[s] \in {sentTo[s], sentTo[s] + 1}]_vars

\* A machine-scoped connection of m1 and a session-scoped connection of the
\* same user are registered; machine-scoped-only(m1) was emitted and reached
\* the first and not the second.
C11_Witness ==
    /\ lastEmit.filter.type = "machine-scoped-only"
    /\ lastEmit.filter.machineId = "m1"
    /\ lastEmit.userId = "u1"
    /\ \E c \in userConnections["u1"] :
          c.socket = "k1" /\ c.connectionType = "machine-scoped" /\ c.machineId = "m1"
    /\ \E c \in userConnections["u1"] :
          c.socket = "k2" /\ c.connectionType = "session-scoped"
    /\ sentTo["k1"] = 1
    /\ sentTo["k2"] = 0

\* C24.  An emit with skipSenderConnection = c never pushes the payload to
\* c, and pushes it exactly once to every other connection of the user that
\* passes the recipient filter; no connection receives the payload of one
\* emit more than once.
C24_SenderSkippedOthersOnce ==
    [][emitCount' = emitCount + 1 =>
        /\ \A c \in lastEmit'.skip : sentTo'[c.socket] = sentTo[c.socket]
        /\ \A d \in userConnections'[lastEmit'.userId] \ lastEmit'.skip :
              TableDelivers(d, lastEmit'.filter) =>
                  sentTo'[d.socket] = sentTo[d.socket] + 1
        /\ \A s \in Sockets : sentTo'[s] <= sentTo[s] + 1]_vars

\* Two user-scoped connections of u1 are registered; an event for the
\* user-scoped connections was emitted with the connection of k1 as the
\* sender: k2 was pushed the event, k1 was not.
C24_Witness ==
    /\ lastEmit.userId = "u1"
    /\ lastEmit.filter.type = "user-scoped-only"
    /\ \E c \in userConnections["u1"] :
          /\ c.socket = "k1" /\ c.connectionType = "user-scoped"
          /\ lastEmit.skip = {c}
    /\ \E d \in userConnections["u1"] :
          d.socket = "k2" /\ d.connectionType = "user-scoped"
    /\ sentTo["k1"] = 0
    /\ sentTo["k2"] = 1

\* The attempt supplies no token, a token that fails verification, or asks
\* for session / machine scope without the qualifier.
BadAttempt(auth) ==
    \/ Falsy(auth.token)
    \/ Verified(auth.token) = NULL
    \/ auth.clientType = "session-scoped" /\ Falsy(auth.sessionId)
    \/ auth.clientType = "machine-scoped" /\ Falsy(auth.machineId)

\* C12.  A connection attempt without a token, with a token that fails
\* verification, or with session / machine scope and no session / machine id
\* never becomes active, is never in the registry and is never pushed an
\* update or ephemeral event; once the handler has decided, the socket is
\* disconnected.
C12_BadHandshakeRejected ==
    \A s \in Sockets :
        sockets[s].pc # "none" /\ BadAttempt(sockets[s].auth) =>
            /\ sockets[s].pc \in {"verifying", "rejected"}
            /\ sockets[s].pc = "rejected" => ~sockets[s].connected
            /\ Registered(s) = {}
            /\ sentTo[s] = 0

\* One socket asked for session scope without a session id, the other sent a
\* token that failed verification; both were rejected, while events were
\* emitted for the users.
C12_Witness ==
    /\ sockets["k1"].pc = "rejected"
    /\ sockets["k1"].auth.token = "t1"
    /\ sockets["k1"].auth.clientType = "session-scoped"
    /\ sockets["k1"].auth.sessionId = NULL
    /\ sockets["k2"].pc = "rejected"
    /\ sockets["k2"].auth.token = "bad"
    /\ emitCount = MaxEmits

\* C13.  The registry holds exactly the connections of the sockets that
\* completed the handshake and have not disconnected, and a socket that has
\* disconnected is pushed no further event.
C13_RegistryHoldsLiveConnections ==
    [][\A s \in Sockets :
          /\ (Registered(s) # {})' <=>
                (sockets'[s].pc = "active" /\ sockets'[s].connected)
          /\ sockets[s].pc # "none" /\ ~sockets[s].connected =>
                sentTo'[s] = sentTo[s]]_vars

\* The machine-scoped connections registered for a user's machine.
MachineConnections(userId, machineId) ==
    {c \in userConnections[userId] :
        c.connectionType = "machine-scoped" /\ c.machineId = machineId}

\* C33.  After any sequence of connects and disconnects of machine-scoped
\* connections, a reconnect that overlaps the old connection included, the
\* active flag of the last machine-activity event emitted by the connect /
\* disconnect handling is true iff at least one machine-scoped connection of
\* that machine is registered.
C33_LastStatusMatchesRegistry ==
    lastEmit.payload.type = "machine-activity" =>
        (lastEmit.payload.active <=>
            MachineConnections(lastEmit.userId, lastEmit.payload.id) # {})

\* C34.  emitUpdate / emitEphemeral for a user pushes only to connections
\* registered under that user: whatever recipient filter is given, every
\* socket that gets the payload belongs to one of the user's registered
\* connections, and no connection registered for another user gets it.
C34_OnlyOwnConnections ==
    [][emitCount' # emitCount =>
          /\ \A s \in Sockets :
                sentTo'[s] # sentTo[s] =>
                    \E c \in userConnections'[lastEmit'.userId] :
                        c.socket = s /\ c.userId = lastEmit'.userId
          /\ \A u \in Users \ {lastEmit'.userId} :
                \A c \in userConnections'[u] :
                    sentTo'[c.socket] = sentTo[c.socket]]_vars

\* An event for u1 that every connection of the user may get was pushed
\* to u1's connection while a connection of u2 is registered and has got
\* nothing.
C34_Witness ==
    /\ lastEmit.userId = "u1"
    /\ lastEmit.filter.type = "all-user-authenticated-connections"
    /\ \E c \in userConnections["u1"] : sentTo[c.socket] > 0
    /\ \E c \in userConnections["u2"] : sentTo[c.socket] = 0

\* ------------------------------------------------------ the activity cache

\* JavaScript's truth value of  number | null.
Truthy(n) == n # NoStamp /\ n # 0

\* sessionCache.ts:98, 146  session.lastActiveAt.getTime(),
\*                          machine.lastActiveAt?.getTime() || 0
LastActive(stamp) == IF Truthy(stamp) THEN stamp ELSE 0

\* Math.abs
Abs(n) == IF n < 0 THEN 0 - n ELSE n

\* A hit test that does not compare the owner.
CacheHitAnyOwner(entry, t, userId) == entry.cached /\ entry.validUntil > t

\* sessionCache.ts:81, 124  cached && cached.validUntil > now &&
\*                          cached.userId === userId
CacheHit(entry, t, userId) ==
    entry.cached /\ entry.validUntil > t /\ entry.userId = userId

\* sessionCache.ts:76-92, 119-140  isSessionValid / isMachineValid is
\* called: a hit returns true; a miss sends findUnique to the store.
IsValidCall(id, userId) ==
    /\ procPc # "exited"
    /\ IF CacheHit(cache[id], now, userId)
       THEN /\ ret' = [op |-> "isValid", result |-> TRUE, hit |-> TRUE]
            /\ UNCHANGED lookups
       ELSE /\ Cardinality(lookups) < MaxLookups
            /\ [id |-> id, userId |-> userId, now |-> now] \notin lookups
            /\ lookups' = lookups \cup {[id |-> id, userId |-> userId, now |-> now]}
            /\ ret' = [op |-> "lookup", result |-> FALSE, hit |-> FALSE]
    /\ UNCHANGED <<now, cache, activeAt, flights, batchTimer, dbOpen, procPc,
                   pendingAtShutdown,
                   accountSeq, txVars, seqVars, occVars, connVars, kvVars, ephVars, auxVars>>

\* A row is found by its id, whoever asks.
FindById(id, userId) == TRUE

\* sessionCache.ts:90-92, 133-140  findUnique({ id, accountId: userId }): the
\* row is found iff the entity belongs to the account.
FindUnique(id, userId) == Owner(id) = userId

\* sessionCache.ts:90-109, 133-157  findUnique resolves with the row of
\* (id, userId), with nothing, or fails.  A row is cached with the deadline
\* computed from the time the call started.
LookupDone(l, fails) ==
    /\ procPc # "exited"
    /\ l \in lookups
    /\ ~dbOpen => fails
    /\ lookups' = lookups \ {l}
    /\ IF ~fails /\ FindUnique(l.id, l.userId)
       THEN /\ cache' = [cache EXCEPT ![l.id] =
                           [cached |-> TRUE,
                            validUntil |-> l.now + CACHE_TTL,
                            lastUpdateSent |-> LastActive(activeAt[l.id]),
                            pendingUpdate |-> NoStamp,
                            userId |-> l.userId]]
            /\ ret' = [op |-> "isValid", result |-> TRUE, hit |-> FALSE]
       ELSE /\ ret' = [op |-> "isValid", result |-> FALSE, hit |-> FALSE]
            /\ UNCHANGED cache
    /\ UNCHANGED <<now, activeAt, flights, batchTimer, dbOpen, procPc,
                   pendingAtShutdown,
                   accountSeq, txVars, seqVars, occVars, connVars, kvVars, ephVars, auxVars>>

\* An update is queued whenever the proposed timestamp is later than the
\* last one sent.
AcceptsAnyLater(entry, timestamp) == timestamp > entry.lastUpdateSent

\* sessionCache.ts:174-175, 198-199  the threshold test.
AcceptsUpdate(entry, timestamp) ==
    Abs(timestamp - entry.lastUpdateSent) > UPDATE_THRESHOLD

\* sessionCache.ts:167-182, 191-206  queueSessionUpdate / queueMachineUpdate.
QueueCall(id, timestamp) ==
    /\ procPc # "exited"
    /\ IF cache[id].cached /\ AcceptsUpdate(cache[id], timestamp)
       THEN /\ cache' = [cache EXCEPT ![id].pendingUpdate = timestamp]
            /\ ret' = [op |-> "queue", result |-> TRUE, hit |-> FALSE]
       ELSE /\ ret' = [op |-> "queue", result |-> FALSE, hit |-> FALSE]
            /\ UNCHANGED cache
    /\ UNCHANGED <<now, activeAt, lookups, flights, batchTimer, dbOpen, procPc,
                   pendingAtShutdown,
                   accountSeq, txVars, seqVars, occVars, connVars, kvVars, ephVars, auxVars>>

\* sessionCache.ts:217-236  the update collected for an entry, if any.
Collected(entry) ==
    IF entry.cached /\ Truthy(entry.pendingUpdate) THEN entry.pendingUpdate ELSE NoStamp

\* sessionCache.ts:217-236  the caches after the collection.
Flushed(c) ==
    [id \in CacheIds |->
        IF Collected(c[id]) # NoStamp
        THEN [c[id] EXCEPT !.lastUpdateSent = c[id].pendingUpdate,
                           !.pendingUpdate = NoStamp]
        ELSE c[id]]

\* sessionCache.ts:212-274  flushPendingUpdates up to its first await: the
\* pending updates are collected and cleared; the session writes are sent,
\* or, when there is none, the machine writes.
FlushPendingUpdates ==
    LET su == Collected(cache["s1"])
        mu == Collected(cache["m1"])
    IN  /\ cache' = Flushed(cache)
        /\ flights' = IF su = NoStamp /\ mu = NoStamp
                      THEN flights
                      ELSE flights \cup
                             {[stage |-> IF su # NoStamp THEN "sessions" ELSE "machines",
                               session |-> su, machine |-> mu]}

\* sessionCache.ts:43, 62-66  time passes.  Every step is longer than a
\* round trip to the store, so no query spans it, and longer than
\* BATCH_INTERVAL (5 s), so the batch timer fires before the step is over.
Tick(d) ==
    /\ procPc # "exited"
    /\ now + d <= Start + MaxSeconds * 1000
    /\ lookups = {}
    /\ flights = {}
    /\ now' = now + d
    /\ IF batchTimer
       THEN FlushPendingUpdates
       ELSE UNCHANGED <<cache, flights>>
    /\ UNCHANGED <<activeAt, lookups, ret, batchTimer,
                   dbOpen, procPc, pendingAtShutdown,
                   accountSeq, txVars, seqVars, occVars, connVars, kvVars, ephVars, auxVars>>

\* sessionCache.ts:62-66  the batch timer fires.
FlushTick ==
    /\ procPc # "exited"
    /\ batchTimer
    /\ Cardinality(flights) < MaxFlights
    /\ FlushPendingUpdates
    /\ UNCHANGED <<now, activeAt, lookups, ret, batchTimer, dbOpen, procPc,
                   pendingAtShutdown,
                   accountSeq, txVars, seqVars, occVars, connVars, kvVars, ephVars, auxVars>>

\* sessionCache.ts:239-273  the writes a flush waits for resolve: they are in
\* the store, or failed (and are logged) on a closed connection.  A session
\* write stores { lastActiveAt, active: true }, a machine write lastActiveAt
\* alone.  After the session writes the machine writes are sent.
WriteDone(f) ==
    /\ procPc # "exited"
    /\ f \in flights
    /\ IF f.stage = "sessions"
       THEN /\ activeAt' = IF dbOpen THEN [activeAt EXCEPT !["s1"] = f.session]
                           ELSE activeAt
            /\ sessionActive' = IF dbOpen THEN TRUE ELSE sessionActive
            /\ flights' = IF f.machine # NoStamp
                          THEN (flights \ {f}) \cup {[f EXCEPT !.stage = "machines"]}
                          ELSE flights \ {f}
       ELSE /\ activeAt' = IF dbOpen THEN [activeAt EXCEPT !["m1"] = f.machine]
                           ELSE activeAt
            /\ flights' = flights \ {f}
            /\ UNCHANGED sessionActive
    /\ UNCHANGED <<now, cache, lookups, ret, batchTimer, dbOpen, procPc,
                   pendingAtShutdown, usageReports,
                   accountSeq, txVars, seqVars, occVars, connVars, kvVars, auxVars>>

\* sessionCache.ts:280-294, 320-322  the sweep.
Cleanup ==
    /\ procPc # "exited"
    /\ cache' = [id \in CacheIds |->
                    IF cache[id].cached /\ cache[id].validUntil < now
                    THEN NoEntry ELSE cache[id]]
    /\ UNCHANGED <<now, activeAt, lookups, flights, ret, batchTimer, dbOpen,
                   procPc, pendingAtShutdown,
                   accountSeq, txVars, seqVars, occVars, connVars, kvVars, ephVars, auxVars>>

\* main.ts:38-44, 69; sessionCache.ts:300-310  the shutdown signal arrives
\* and the shutdown handlers are started.  The activity-cache handler calls
\* shutdown(), which stops the timer and calls flushPendingUpdates without
\* awaiting it; the db handler starts db.$disconnect().
ShutdownSignal ==
    /\ procPc = "running"
    /\ procPc' = "shutdown"
    /\ batchTimer' = FALSE
    /\ pendingAtShutdown' = [id \in CacheIds |-> Collected(cache[id])]
    /\ FlushPendingUpdates
    /\ UNCHANGED <<now, activeAt, lookups, ret, dbOpen,
                   accountSeq, txVars, seqVars, occVars, connVars, kvVars, ephVars, auxVars>>

\* main.ts:38-40  db.$disconnect() resolves.
DbDisconnect ==
    /\ procPc = "shutdown"
    /\ dbOpen
    /\ dbOpen' = FALSE
    /\ UNCHANGED <<now, cache, activeAt, lookups, flights, ret, batchTimer,
                   procPc, pendingAtShutdown,
                   accountSeq, txVars, seqVars, occVars, connVars, kvVars, ephVars, auxVars>>

\* main.ts:69-70, 149-154  the shutdown handlers have resolved: main returns
\* and process.exit(0) is called.
ProcessExit ==
    /\ procPc = "shutdown"
    /\ ~dbOpen
    /\ procPc' = "exited"
    /\ UNCHANGED <<now, cache, activeAt, lookups, flights, ret, batchTimer,
                   dbOpen, pendingAtShutdown,
                   accountSeq, txVars, seqVars, occVars, connVars, kvVars, ephVars, auxVars>>

\* The session cache and the machine cache are two maps handled by the same
\* code; they meet only in flushPendingUpdates.  SpecCache follows the
\* machine cache through time, SpecShutdown both caches through a shutdown.
NextCache ==
    \/ \E d \in Steps : Tick(d)
    \/ \E id \in CacheIds \ {"s1"}, userId \in Users : IsValidCall(id, userId)
    \/ \E l \in lookups, fails \in BOOLEAN : LookupDone(l, fails)
    \/ \E id \in CacheIds \ {"s1"}, timestamp \in {now, now - 31000} :
          QueueCall(id, timestamp)
    \/ FlushTick
    \/ \E f \in flights : WriteDone(f)
    \/ Cleanup

InitCache ==
    /\ accountSeq = [u \in Users |-> 0]
    /\ TxInit
    /\ SeqInit
    /\ OccInit
    /\ RestInit

SpecCache == InitCache /\ [][NextCache]_vars

NextShutdown ==
    \/ \E id \in CacheIds, userId \in Users : IsValidCall(id, userId)
    \/ \E l \in lookups, fails \in BOOLEAN : LookupDone(l, fails)
    \/ \E id \in CacheIds : QueueCall(id, now)
    \/ FlushTick
    \/ \E f \in flights : WriteDone(f)
    \/ ShutdownSignal
    \/ DbDisconnect
    \/ ProcessExit

InitShutdown ==
    /\ accountSeq = [u \in Users |-> 0]
    /\ TxInit
    /\ SeqInit
    /\ OccInit
    /\ RestInit

SpecShutdown == InitShutdown /\ [][NextShutdown]_vars

\* C28.  The last-flushed timestamp of a cache entry always equals a
\* timestamp that is actually stored for the entity: it is set from the
\* store when the entry is populated and is advanced only by a flush whose
\* store write succeeded.
C28_LastSentIsStored ==
    \A id \in CacheIds :
        cache[id].cached => cache[id].lastUpdateSent = LastActive(activeAt[id])

\* A flush is waiting for its store write, and the entry holds a timestamp
\* queued since that flush collected its updates.
AcceptedInFlight(id) ==
    flights # {} /\ cache[id].cached /\ Truthy(cache[id].pendingUpdate)

\* C29.  A timestamp accepted by queueSessionUpdate / queueMachineUpdate
\* while a flush's store write is in flight is neither lost nor cleared by
\* that flush: it remains pending, unless a later accepted timestamp takes
\* its place, until the next flush sends the write of it.
C29_AcceptedInFlightIsKept ==
    [][\A id \in CacheIds :
          AcceptedInFlight(id) =>
              \/ /\ cache'[id].cached
                 /\ cache'[id].pendingUpdate = cache[id].pendingUpdate
              \/ /\ AcceptedInFlight(id)'
                 /\ ret'.op = "queue" /\ ret'.result
              \/ \E f \in flights' \ flights :
                    cache[id].pendingUpdate =
                        IF IsSession(id) THEN f.session ELSE f.machine]_vars

\* C30.  The activity timestamp persisted for a session or a machine never
\* moves backwards: every flush write stores a lastActiveAt that is not
\* older than the one stored before it.
C30_StoredNeverMovesBack ==
    [][\A id \in CacheIds : activeAt'[id] >= activeAt[id]]_vars

TenMinutes == 600000

\* The time at which the handlers of SpecEph run: eleven minutes after the
\* session s1 was last active.
EphNow == Start + 660000

\* part_008:227-230  the time a machine-alive carries: the present, a time
\* ahead of the server's clock, and one older than ten minutes.
AliveTimes == {EphNow, EphNow + 1000, EphNow - TenMinutes - 1}

EphKinds == {"machine-alive", "usage-report", "machine-connect",
             "machine-disconnect", "timeout"}

\* The requests and events of the ephemeral path (value: the machineId or
\* sessionId they name, ev: the time they carry), together with updates of
\* the machine metadata, which take the persistent path.
EphRequests ==
    [kind : {"machine-alive"}, value : {"m1"}, ev : AliveTimes]
        \cup [kind : {"machine-alive"}, value : {NULL}, ev : {EphNow}]
        \cup [kind : {"usage-report"}, value : {"s1", "s2", NULL}, ev : {0}]
        \cup [kind : {"machine-connect", "machine-disconnect"}, value : {"m1"}, ev : {0}]
        \cup [kind : {"timeout"}, value : {"s1", "m1"}, ev : {0}]
        \cup [kind : {"machine-update-metadata"}, value : {"a"}, ev : FirstVersions]

\* eventRouter.ts:510-550  the ephemeral payloads.
SessionActivityEphemeral(sessionId, active, at) ==
    [type |-> "activity", id |-> sessionId, active |-> active, activeAt |-> at,
     thinking |-> FALSE]

UsageEphemeral(sessionId, at) ==
    [type |-> "usage", id |-> sessionId, key |-> "key", tokens |-> "tokens",
     cost |-> "cost", timestamp |-> at]

\* An emitEphemeral that stamps the payload with a seq.
EmitEphemeralWithSeq(conn, payload) == Append(conn, payload @@ [seq |-> 0])

\* eventRouter.ts:261-274, 319-345  emitEphemeral towards the user's
\* user-scoped connection (every caller uses user-scoped-only): the payload
\* is pushed as it is.
EmitEphemeral(conn, payload) == Append(conn, payload)

\* sessionCache.ts:144-149  the entry a validation miss caches.
Populated(id, userId, at) ==
    [cached |-> TRUE, validUntil |-> at + CACHE_TTL,
     lastUpdateSent |-> LastActive(activeAt[id]), pendingUpdate |-> NoStamp,
     userId |-> userId]

\* sessionCache.ts:191-206  queueMachineUpdate on the cache c.
Queued(c, id, timestamp) ==
    IF c[id].cached /\ AcceptsUpdate(c[id], timestamp)
    THEN [c EXCEPT ![id].pendingUpdate = timestamp]
    ELSE c

\* The time a heartbeat carries, taken as it is.
Unclamped(time) == time

\* part_008:241-247  t = data.time, not later than the server's clock.
Clamped(time) == IF time > now THEN now ELSE time

\* A client sends a request or a socket event arrives; the timeout loop
\* (part_005:13) is one loop, so one sweep runs at a time.
EphSubmit(w, req) ==
    /\ req.kind = "timeout" =>
          \A v \in Writers : writers[v].kind = "timeout" => writers[v].pc = "done"
    /\ Submit(w, req)

\* part_008:236-238  !data || typeof data.time !== 'number' || !data.machineId:
\* the heartbeat names no machine.
Malformed(machineId) == Falsy(machineId)

\* part_008:226-266  machine-alive up to the await inside isMachineValid:
\* a malformed heartbeat and one older than ten minutes are dropped; a
\* cache hit lets the handler queue the update and emit at once; a miss
\* sends findUnique.
MachineAlive(w) ==
    LET me == writers[w]
        t == Clamped(me.ev)
    IN  /\ me.pc = "read"
        /\ me.kind = "machine-alive"
        /\ IF Malformed(me.value) \/ t < now - TenMinutes
           THEN /\ writers' = [writers EXCEPT ![w].pc = "done"]
                /\ UNCHANGED <<cache, delivered>>
           ELSE IF CacheHit(cache[me.value], now, OccUser)
           THEN /\ cache' = Queued(cache, me.value, t)
                /\ delivered' = EmitEphemeral(delivered,
                                     MachineActivityEphemeral(me.value, TRUE, t))
                /\ writers' = [writers EXCEPT ![w].pc = "done"]
           ELSE /\ writers' = [writers EXCEPT ![w].pc = "lookup"]
                /\ UNCHANGED <<cache, delivered>>
        /\ UNCHANGED <<accountSeq, fields, machineActive, artifact, sessions,
                       txVars, seqVars, connVars, kvVars, ephVars, auxVars,
                       now, activeAt, lookups, flights, ret, batchTimer, dbOpen,
                       procPc, pendingAtShutdown>>

\* sessionCache.ts:133-157; part_008:250-262  findUnique resolves.  The
\* machine is the user's: it is cached, the update is queued and the
\* ephemeral is emitted.  The query fails: isMachineValid answers false and
\* the handler returns.
MachineAliveLookup(w, fails) ==
    LET me == writers[w]
        t == Clamped(me.ev)
        cached == [cache EXCEPT ![me.value] = Populated(me.value, OccUser, now)]
    IN  /\ me.pc = "lookup"
        /\ IF fails \/ Owner(me.value) # OccUser
           THEN UNCHANGED <<cache, delivered>>
           ELSE /\ cache' = Queued(cached, me.value, t)
                /\ delivered' = EmitEphemeral(delivered,
                                     MachineActivityEphemeral(me.value, TRUE, t))
        /\ writers' = [writers EXCEPT ![w].pc = "done"]
        /\ UNCHANGED <<accountSeq, fields, machineActive, artifact, sessions,
                       txVars, seqVars, connVars, kvVars, ephVars, auxVars,
                       now, activeAt, lookups, flights, ret, batchTimer, dbOpen,
                       procPc, pendingAtShutdown>>

\* usageHandler.ts:61-77  findFirst for the report's session resolves: the
\* session is not the user's and the report is refused, or the handler
\* sends the upsert.
UsageFind(w) ==
    LET me == writers[w]
    IN  /\ me.pc = "read"
        /\ me.kind = "usage-report"
        /\ me.value # NULL
        /\ IF me.value = "s1"
           THEN writers' = [writers EXCEPT ![w].pc = "upsert"]
           ELSE writers' = [writers EXCEPT
                              ![w].pc = "done",
                              ![w].reply = [NoReply EXCEPT !.result = "not-found"]]
        /\ UNCHANGED <<accountSeq, fields, machineActive, artifact, sessions,
                       delivered, txVars, seqVars, restVars>>

\* usageHandler.ts:86-125  the upsert resolves (the first query of a report
\* that names no session): a report that names a session is announced with
\* an ephemeral, and the client is answered.
UsageUpsert(w) ==
    LET me == writers[w]
    IN  /\ me.kind = "usage-report"
        /\ \/ me.pc = "upsert"
           \/ me.pc = "read" /\ me.value = NULL
        /\ usageReports' = usageReports \cup {me.value}
        /\ delivered' = IF me.value # NULL
                        THEN EmitEphemeral(delivered, UsageEphemeral(me.value, now))
                        ELSE delivered
        /\ writers' = [writers EXCEPT
                         ![w].pc = "done",
                         ![w].reply = [NoReply EXCEPT !.result = "success"]]
        /\ UNCHANGED <<accountSeq, fields, machineActive, artifact, sessions,
                       sessionActive, txVars, seqVars, connVars, cacheVars, kvVars,
                       auxVars>>

\* socket.ts:131-139, 145-163  a machine-scoped socket was accepted, or has
\* disconnected: the daemon's status is announced.
MachineStatus(w) ==
    LET me == writers[w]
    IN  /\ me.pc = "read"
        /\ me.kind \in {"machine-connect", "machine-disconnect"}
        /\ delivered' = EmitEphemeral(delivered,
                             MachineActivityEphemeral(me.value,
                                 me.kind = "machine-connect", now))
        /\ writers' = [writers EXCEPT ![w].pc = "done"]
        /\ UNCHANGED <<accountSeq, fields, machineActive, artifact, sessions,
                       txVars, seqVars, restVars>>

\* A row matches whatever its active flag is.
AnyRow(id) == TRUE

\* The row of the session or machine is active.
IsActive(id) == IF IsSession(id) THEN sessionActive ELSE machineActive

\* part_005:15-22, 39-46  findMany resolves: the row is active and was last
\* active ten minutes ago or earlier, and the sweep sends the update; or
\* the sweep has nothing to do.
TimeoutFind(w) ==
    LET me == writers[w]
    IN  /\ me.pc = "read"
        /\ me.kind = "timeout"
        /\ IF /\ IsActive(me.value)
              /\ activeAt[me.value] # NoStamp
              /\ activeAt[me.value] <= now - TenMinutes
           THEN writers' = [writers EXCEPT ![w].pc = "update"]
           ELSE writers' = [writers EXCEPT ![w].pc = "done"]
        /\ UNCHANGED <<accountSeq, fields, machineActive, artifact, sessions,
                       delivered, txVars, seqVars, restVars>>

\* part_005:24-36, 48-60  updateManyAndReturn({ where: { id, active: true },
\* data: { active: false } }) resolves: a row that was updated is announced
\* with an ephemeral that carries its lastActiveAt.
TimeoutUpdate(w) ==
    LET me == writers[w]
    IN  /\ me.pc = "update"
        /\ me.kind = "timeout"
        /\ IF IsActive(me.value)
           THEN /\ sessionActive' = IF IsSession(me.value) THEN FALSE ELSE sessionActive
                /\ machineActive' = IF IsSession(me.value) THEN machineActive ELSE FALSE
                /\ delivered' = EmitEphemeral(delivered,
                                     IF IsSession(me.value)
                                     THEN SessionActivityEphemeral(me.value, FALSE,
                                                                   activeAt[me.value])
                                     ELSE MachineActivityEphemeral(me.value, FALSE,
                                                                   activeAt[me.value]))
           ELSE UNCHANGED <<sessionActive, machineActive, delivered>>
        /\ writers' = [writers EXCEPT ![w].pc = "done"]
        /\ UNCHANGED <<accountSeq, fields, artifact, sessions, usageReports,
                       txVars, seqVars, connVars, cacheVars, kvVars, auxVars>>

NextEph ==
    \/ \E w \in Writers, req \in EphRequests : EphSubmit(w, req)
    \/ \E w \in Writers : Retry(w)
    \/ \E w \in Writers : CasRead(w)
    \/ \E w \in Writers : CasUpdate(w)
    \/ \E w \in Writers : CasRefetch(w)
    \/ \E w \in Writers : AllocEmit(w)
    \/ \E w \in Writers : MachineAlive(w)
    \/ \E w \in Writers, fails \in BOOLEAN : MachineAliveLookup(w, fails)
    \/ \E w \in Writers : UsageFind(w)
    \/ \E w \in Writers : UsageUpsert(w)
    \/ \E w \in Writers : MachineStatus(w)
    \/ \E w \in Writers : TimeoutFind(w)
    \/ \E w \in Writers : TimeoutUpdate(w)

\* Eleven minutes after the session was last active; the machine's row was
\* made active by its daemon and was last active at Start too, or ten
\* seconds ago.
InitEph ==
    /\ accountSeq = [u \in Users |-> 0]
    /\ TxInit
    /\ SeqInit
    /\ fields = [f \in Columns |->
                    IF f = "kv" THEN NoRow
                    ELSE [value |-> IF f \in {"metadata", "accessKey"} THEN "a" ELSE NULL,
                          version |-> 0]]
    /\ machineActive = TRUE
    /\ artifact = [header |-> "a", headerVersion |-> 0,
                   body |-> "a", bodyVersion |-> 0, seq |-> 0]
    /\ sessions = 0
    /\ delivered = <<>>
    /\ writers = [w \in Writers |-> IdleWriter]
    /\ ConnInit
    /\ KvInit
    /\ EphInit
    /\ AuxInit
    /\ now = EphNow
    /\ cache = [id \in CacheIds |-> NoEntry]
    /\ activeAt \in {[id \in CacheIds |-> Start],
                      [id \in CacheIds |-> IF IsSession(id) THEN Start
                                           ELSE EphNow - 10000]}
    /\ lookups = {}
    /\ flights = {}
    /\ ret = NoCall
    /\ batchTimer = TRUE
    /\ dbOpen = TRUE
    /\ procPc = "running"
    /\ pendingAtShutdown = [id \in CacheIds |-> NoStamp]

SpecEph == InitEph /\ [][NextEph]_vars

\* part_005:12-14  the sweeps that are started, each for one row.
SweepRequests == [kind : {"timeout"}, value : {"s1", "m1"}, ev : {0}]

\* The timeout sweeper beside the activity cache: sweeps of the server
\* processes that share the store (each runs startTimeout), validations,
\* queued updates and flushes, eleven minutes after the rows were last
\* active.
NextSweep ==
    \/ \E w \in Writers, req \in SweepRequests : Submit(w, req)
    \/ \E w \in Writers : TimeoutFind(w)
    \/ \E w \in Writers : TimeoutUpdate(w)
    \/ \E id \in CacheIds : IsValidCall(id, OccUser)
    \/ \E l \in lookups, fails \in BOOLEAN : LookupDone(l, fails)
    \/ \E id \in CacheIds : QueueCall(id, now)
    \/ FlushTick
    \/ \E f \in flights : WriteDone(f)

InitSweep == InitEph

SpecSweep == InitSweep /\ [][NextSweep]_vars

\* --------------------------------------------- the session-timeout loop

\* lru.ts:143, delay.ts:16  shutdownSignal.aborted
Aborted == procPc # "running"

\* The row the loop's sweep of a kind looks at.
RowOf(kind) == IF kind = "sessions" THEN "s1" ELSE "m1"

\* part_005:16-23, 40-47  the row findMany returns: active, and last active
\* ten minutes ago or earlier.
Stale(id) ==
    IsActive(id) /\ activeAt[id] # NoStamp /\ activeAt[id] <= now - TenMinutes

\* part_005:38-39, 62-64  what follows the sweep of a kind: the machines'
\* findMany after the sessions, the delay after the machines.
AfterSweep(kind) == IF kind = "sessions" THEN "machines" ELSE "delay"

\* part_005:16-23, 40-47; lru.ts:143-155; backoff.ts:49-58  findMany of
\* the sessions / machines resolves.  A query on a closed connection may
\* throw: forever rethrows the error and backoff waits before it calls
\* forever's loop again.
LoopFind(kind, fails) ==
    /\ procPc # "exited"
    /\ loopPc = kind
    /\ fails => ~dbOpen
    /\ loopPc' = IF fails THEN "backoff"
                 ELSE IF Stale(RowOf(kind)) THEN kind \o "-update"
                 ELSE AfterSweep(kind)
    /\ UNCHANGED <<lockVars, friendVars, accountSeq, txVars, seqVars, occVars,
                   connVars, cacheVars, kvVars, ephVars>>

\* part_005:24-36, 48-60  updateManyAndReturn resolves: a row that was
\* updated is announced; the loop goes on with the next query or the delay.
LoopUpdate(kind, fails) ==
    LET id == RowOf(kind)
    IN  /\ procPc # "exited"
        /\ loopPc = kind \o "-update"
        /\ fails => ~dbOpen
        /\ loopPc' = IF fails THEN "backoff" ELSE AfterSweep(kind)
        /\ IF ~fails /\ IsActive(id)
           THEN /\ sessionActive' = IF IsSession(id) THEN FALSE ELSE sessionActive
                /\ machineActive' = IF IsSession(id) THEN machineActive ELSE FALSE
                /\ delivered' = EmitEphemeral(delivered,
                                     IF IsSession(id)
                                     THEN SessionActivityEphemeral(id, FALSE, activeAt[id])
                                     ELSE MachineActivityEphemeral(id, FALSE, activeAt[id]))
           ELSE UNCHANGED <<sessionActive, machineActive, delivered>>
        /\ UNCHANGED <<lockVars, friendVars, accountSeq, fields, artifact, sessions,
                       writers, usageReports, txVars, seqVars, connVars, cacheVars,
                       kvVars>>

\* part_005:14, 64; delay.ts:9-39  delay(60 s, shutdownSignal) resolves,
\* when the minute is over or, at once, when the signal is aborted; the
\* callback's while (true) starts the next sweep.
LoopDelayDone ==
    /\ procPc # "exited"
    /\ loopPc = "delay"
    /\ loopPc' = "sessions"
    /\ UNCHANGED <<lockVars, friendVars, accountSeq, txVars, seqVars, occVars,
                   connVars, cacheVars, kvVars, ephVars>>

\* backoff.ts:49-58; lru.ts:143-155  backoff's delay resolves and backoff
\* calls forever's function again: its loop calls the callback unless the
\* signal is aborted, in which case the function returns and the task ends.
BackoffDone ==
    /\ procPc # "exited"
    /\ loopPc = "backoff"
    /\ loopPc' = IF Aborted THEN "exited" ELSE "sessions"
    /\ UNCHANGED <<lockVars, friendVars, accountSeq, txVars, seqVars, occVars,
                   connVars, cacheVars, kvVars, ephVars>>

\* The loop beside the activity cache, through a shutdown.
NextLoop ==
    \/ \E kind \in {"sessions", "machines"}, fails \in BOOLEAN : LoopFind(kind, fails)
    \/ \E kind \in {"sessions", "machines"}, fails \in BOOLEAN : LoopUpdate(kind, fails)
    \/ LoopDelayDone
    \/ BackoffDone
    \/ \E id \in CacheIds : IsValidCall(id, OccUser)
    \/ \E l \in lookups, fails \in BOOLEAN : LookupDone(l, fails)
    \/ \E id \in CacheIds : QueueCall(id, now)
    \/ FlushTick
    \/ \E f \in flights : WriteDone(f)
    \/ ShutdownSignal
    \/ DbDisconnect
    \/ ProcessExit

InitLoop == InitEph

SpecLoop == InitLoop /\ [][NextLoop]_vars

\* ------------------------------------------ claims about the ephemeral path

\* What the user-scoped connection was sent is an ephemeral payload.
IsEphemeral(e) == "type" \in DOMAIN e

\* Writer w handles a request or event of the ephemeral path in this step.
EphemeralStep(w) ==
    /\ writers'[w] # writers[w]
    /\ writers'[w].kind \in EphKinds

\* The payload pushed in this step, if the step pushed one.
PushedNow == IF Len(delivered') = Len(delivered) + 1
             THEN {delivered'[Len(delivered')]} ELSE {}

\* C27.  The ephemeral path never allocates a sequence number: handling
\* heartbeats, usage reports, machine connect/disconnect and activity
\* timeouts emits payloads without id and seq and leaves every user's
\* sequence counter unchanged.
C27_EphemeralWithoutIdAndSeq ==
    [][\A w \in Writers :
          EphemeralStep(w) =>
              /\ accountSeq' = accountSeq
              /\ \A e \in PushedNow :
                    /\ IsEphemeral(e)
                    /\ "id" \notin DOMAIN e
                    /\ "seq" \notin DOMAIN e]_vars

\* C27, amended.  The ephemeral path never allocates a sequence number:
\* handling heartbeats, usage reports, machine connect/disconnect and
\* activity timeouts leaves every user's sequence counter unchanged and
\* emits payloads without seq; the id of an activity, machine-activity or
\* usage payload is the id of the session or machine the payload is about.
C27_EphemeralWithoutSeq ==
    [][\A w \in Writers :
          EphemeralStep(w) =>
              /\ accountSeq' = accountSeq
              /\ \A e \in PushedNow :
                    /\ IsEphemeral(e)
                    /\ "seq" \notin DOMAIN e
                    /\ "id" \in DOMAIN e => e.id = writers[w].value]_vars

\* An update of the machine metadata was given seq 1 and delivered; then a
\* heartbeat of m1 was announced with an ephemeral, and the counter is
\* still 1.
C27_Witness ==
    /\ accountSeq[OccUser] = 1
    /\ Len(delivered) = 2
    /\ delivered[1].t = "machine-update-metadata"
    /\ delivered[1].seq = 1
    /\ delivered[2] = MachineActivityEphemeral("m1", TRUE, EphNow)
    /\ \A w \in Writers : writers[w].pc = "done"

\* ------------------------------------------ claims about the activity cache

\* C14.  A pending timestamp of a cache entry stays until a later accepted
\* timestamp replaces it or a flush takes it: the flush sends the write of
\* exactly that timestamp, records it as the last one sent and clears the
\* marker.  No validation and no sweep removes it.
C14_PendingFlushedOrSuperseded ==
    [][\A id \in CacheIds :
          cache[id].cached /\ cache[id].pendingUpdate # NoStamp =>
              \/ cache'[id].cached /\ cache'[id].pendingUpdate = cache[id].pendingUpdate
              \/ /\ cache'[id].cached
                 /\ cache'[id].pendingUpdate # NoStamp
                 /\ ret'.op = "queue" /\ ret'.result
              \/ /\ cache'[id].cached
                 /\ cache'[id].pendingUpdate = NoStamp
                 /\ cache'[id].lastUpdateSent = cache[id].pendingUpdate
                 /\ \E f \in flights' \ flights :
                       IF IsSession(id) THEN f.session = cache[id].pendingUpdate
                                        ELSE f.machine = cache[id].pendingUpdate]_vars

C16_ShutdownDrainsPending ==
    ~dbOpen \/ procPc = "exited" =>
        /\ ~batchTimer
        /\ \A id \in CacheIds :
              pendingAtShutdown[id] # NoStamp => activeAt[id] = pendingAtShutdown[id]

\* C17.  A validation that hits a cache entry moves the entry's deadline to
\* CACHE_TTL after the time of the hit.
C17_HitRefreshesDeadline ==
    [][\A id \in CacheIds, userId \in Users :
          IsValidCall(id, userId) /\ ret'.hit =>
              cache'[id].validUntil = now + CACHE_TTL]_vars

\* C18.  isSessionValid / isMachineValid answers true at once iff an
\* unexpired entry of that owner is cached, and then asks the store nothing;
\* otherwise it asks the store once, answers true iff the store holds the
\* entity with that owner, and creates an entry only then; a lookup that
\* finds nothing or fails answers false and leaves the cache unchanged.  Every
\* cached entry names the entity's owner.
C18_ValidOnlyForOwner ==
    /\ [](\A id \in CacheIds : cache[id].cached => cache[id].userId = Owner(id))
    /\ [][\A id \in CacheIds, userId \in Users :
            /\ IsValidCall(id, userId) =>
                 IF /\ cache[id].cached
                    /\ cache[id].validUntil > now
                    /\ cache[id].userId = userId
                 THEN /\ ret' = [op |-> "isValid", result |-> TRUE, hit |-> TRUE]
                      /\ lookups' = lookups
                      /\ cache' = cache
                 ELSE /\ ret'.op = "lookup"
                      /\ Cardinality(lookups') = Cardinality(lookups) + 1
                      /\ \E l \in lookups' \ lookups : l.id = id /\ l.userId = userId
                      /\ cache' = cache
            /\ \A l \in lookups, fails \in BOOLEAN :
                 l.id = id /\ l.userId = userId /\ LookupDone(l, fails) =>
                    /\ ret'.op = "isValid" /\ ~ret'.hit
                    /\ lookups' = lookups \ {l}
                    /\ ret'.result <=> (~fails /\ Owner(id) = userId)
                    /\ ret'.result =>
                          /\ cache'[id].cached
                          /\ cache'[id].userId = userId
                          /\ cache'[id].validUntil = l.now + CACHE_TTL
                          /\ cache'[id].pendingUpdate = NoStamp
                    /\ ~ret'.result => cache' = cache]_vars

\* A validation that asked the store was answered false while the owner's
\* entry of the machine was cached and unexpired.
C18_Witness ==
    /\ ret = [op |-> "isValid", result |-> FALSE, hit |-> FALSE]
    /\ cache["m1"].cached
    /\ cache["m1"].userId = "u1"
    /\ cache["m1"].validUntil > now
    /\ now > Start

\* ------------------------------------------------------------- AsyncLock

\* An unlock that wakes the next waiter and keeps the permit.
UnlockKeepsPermit(p, queue) ==
    IF p + 1 = 1 /\ queue # <<>>
    THEN [permits |-> p + 1, queue |-> Tail(queue), woken |-> {Head(queue)},
          throws |-> FALSE]
    ELSE [permits |-> p + 1, queue |-> queue, woken |-> {}, throws |-> FALSE]

\* lock.ts:26-43  unlock(): the permit is given back; with a permit too many
\* while somebody waits it throws; with somebody waiting the permit is
\* consumed again at once and the first waiter's resolver is put on a timer.
Unlock(p, queue) ==
    IF p + 1 > 1 /\ queue # <<>>
    THEN [permits |-> p + 1, queue |-> queue, woken |-> {}, throws |-> TRUE]
    ELSE IF p + 1 = 1 /\ queue # <<>>
    THEN [permits |-> p + 1 - 1, queue |-> Tail(queue), woken |-> {Head(queue)},
          throws |-> FALSE]
    ELSE [permits |-> p + 1, queue |-> queue, woken |-> {}, throws |-> FALSE]

\* A release that is skipped when the locked function throws.
RunsOnReturn(throws) == ~throws

\* lock.ts:8-13  try { ... } finally { this.unlock() }: unlock runs whether
\* the function returned or threw.
RunsFinally(throws) == TRUE

\* lock.ts:7-9, 17-23  inLock is called: lock() takes the permit and
\* returns, or pushes its resolver and waits.
InLock(c) ==
    /\ lockPc[c] = "idle"
    /\ lockArrived' = Append(lockArrived, c)
    /\ IF permits > 0
       THEN /\ permits' = permits - 1
            /\ lockPc' = [lockPc EXCEPT ![c] = "acquired"]
            /\ UNCHANGED promiseResolverQueue
       ELSE /\ promiseResolverQueue' = Append(promiseResolverQueue, c)
            /\ lockPc' = [lockPc EXCEPT ![c] = "queued"]
            /\ UNCHANGED permits
    /\ UNCHANGED <<lockStarted, loopPc, friendVars, accountSeq, txVars, seqVars,
                   occVars, connVars, cacheVars, kvVars, ephVars>>

\* lock.ts:9-10, 36-40  await this.lock() resolves, for the call that took
\* the permit or for the waiter whose timer fired, and the function starts.
LockResume(c) ==
    /\ lockPc[c] \in {"acquired", "scheduled"}
    /\ lockPc' = [lockPc EXCEPT ![c] = "running"]
    /\ lockStarted' = Append(lockStarted, c)
    /\ UNCHANGED <<permits, promiseResolverQueue, lockArrived, loopPc, friendVars,
                   accountSeq, txVars, seqVars, occVars, connVars, cacheVars,
                   kvVars, ephVars>>

\* lock.ts:10-13  the locked function returns or throws and the finally
\* block unlocks.
FuncEnd(c, throws) ==
    LET u == Unlock(permits, promiseResolverQueue)
    IN  /\ lockPc[c] = "running"
        /\ IF RunsFinally(throws)
           THEN /\ permits' = u.permits
                /\ promiseResolverQueue' = u.queue
                /\ lockPc' = [d \in LockCalls |->
                                 IF d = c
                                 THEN IF u.throws THEN "unlock-threw"
                                      ELSE IF throws THEN "failed" ELSE "done"
                                 ELSE IF d \in u.woken THEN "scheduled" ELSE lockPc[d]]
           ELSE /\ lockPc' = [lockPc EXCEPT ![c] = "failed"]
                /\ UNCHANGED <<permits, promiseResolverQueue>>
        /\ UNCHANGED <<lockArrived, lockStarted, loopPc, friendVars, accountSeq,
                       txVars, seqVars, occVars, connVars, cacheVars, kvVars,
                       ephVars>>

NextLock ==
    \/ \E c \in LockCalls : InLock(c)
    \/ \E c \in LockCalls : LockResume(c)
    \/ \E c \in LockCalls, throws \in BOOLEAN : FuncEnd(c, throws)

InitLock ==
    /\ accountSeq = [u \in Users |-> 0]
    /\ TxInit
    /\ SeqInit
    /\ OccInit
    /\ RestInit

SpecLock == InitLock /\ [][NextLock]_vars

\* Timers fire and every locked function terminates.
FairSpecLock ==
    /\ SpecLock
    /\ \A c \in LockCalls : WF_vars(LockResume(c))
    /\ \A c \in LockCalls : WF_vars(\E throws \in BOOLEAN : FuncEnd(c, throws))

\* ------------------------------------------------ claims about AsyncLock

\* The calls whose locked function is running.
Running == {c \in LockCalls : lockPc[c] = "running"}

\* C35.  AsyncLock.inLock never runs two functions of the same lock at the
\* same time: between the start and the completion or failure of one locked
\* function no other locked function starts, and the permit count stays in
\* {0, 1}.
C35_MutualExclusion ==
    /\ [](Cardinality(Running) <= 1 /\ permits \in {0, 1})
    /\ [][\A c \in LockCalls :
             lockPc[c] = "running" =>
                 \A d \in LockCalls \ {c} : lockPc'[d] # "running"]_vars

\* A third call's function runs, holding the only permit, after the first
\* call's function returned and the second's threw.
C35_Witness ==
    /\ lockPc[1] = "done" /\ lockPc[2] = "failed" /\ lockPc[3] = "running"
    /\ Len(lockStarted) = 3
    /\ permits = 0

\* The calls whose function was started.
Started == {lockStarted[i] : i \in 1..Len(lockStarted)}

\* C36.  AsyncLock releases the lock also when the locked function throws,
\* and hands it to the waiters in arrival order: the functions are started
\* in the order of the inLock calls, and every inLock call eventually runs
\* its function, provided every locked function terminates.
C36_EveryCallRunsInOrder ==
    /\ [](/\ Len(lockStarted) <= Len(lockArrived)
          /\ lockStarted = SubSeq(lockArrived, 1, Len(lockStarted)))
    /\ \A c \in LockCalls : (lockPc[c] # "idle") ~> (c \in Started)

\* The function of the first call threw while two calls were waiting; the
\* one that came first of the two is running, the other still waits.
C36_Witness ==
    /\ lockArrived = <<1, 2, 3>>
    /\ lockPc[1] = "failed" /\ lockPc[2] = "running" /\ lockPc[3] = "queued"
    /\ lockStarted = <<1, 2>>

\* ------------------------------------------------------- friendships

\* relationshipGet.ts:23-38  the status of from towards to; no row (nobody
\* has a row towards oneself) reads as none.
RelationshipGet(rel, from, to) == IF from = to THEN "none" ELSE rel[<<from, to>>]

\* part_010:201-263  relationshipSet: the row is upserted with the status.
RelationshipSet(rel, from, to, status) == [rel EXCEPT ![<<from, to>>] = status]

\* part_011:20-85  the relationships after friendAdd by cur for tgt.
FriendAdded(rel, cur, tgt) ==
    LET currentUserRelationship == RelationshipGet(rel, cur, tgt)
        targetUserRelationship == RelationshipGet(rel, tgt, cur)
    IN  IF cur = tgt THEN rel
        ELSE IF targetUserRelationship = "requested"
        THEN RelationshipSet(RelationshipSet(rel, tgt, cur, "friend"),
                             cur, tgt, "friend")
        ELSE IF currentUserRelationship \in {"none", "rejected"}
        THEN LET requested == RelationshipSet(rel, cur, tgt, "requested")
             IN  IF targetUserRelationship = "none"
                 THEN RelationshipSet(requested, tgt, cur, "pending")
                 ELSE requested
        ELSE rel

\* A friendRemove that leaves the other side of a friendship as it is.
FriendRemovedOneSide(rel, cur, tgt) ==
    IF cur # tgt /\ RelationshipGet(rel, cur, tgt) = "friend"
    THEN RelationshipSet(rel, cur, tgt, "pending")
    ELSE rel

\* part_012:22-70  the relationships after friendRemove by cur for tgt.
FriendRemoved(rel, cur, tgt) ==
    LET currentUserRelationship == RelationshipGet(rel, cur, tgt)
        targetUserRelationship == RelationshipGet(rel, tgt, cur)
    IN  IF currentUserRelationship = "requested"
        THEN RelationshipSet(rel, cur, tgt, "rejected")
        ELSE IF currentUserRelationship = "friend"
        THEN RelationshipSet(RelationshipSet(rel, tgt, cur, "requested"),
                             cur, tgt, "pending")
        ELSE IF currentUserRelationship = "pending"
        THEN LET none == RelationshipSet(rel, cur, tgt, "none")
             IN  IF targetUserRelationship # "rejected"
                 THEN RelationshipSet(none, tgt, cur, "none")
                 ELSE none
        ELSE rel

\* part_011:20-85  friendAdd: one serializable transaction (inTx.ts:36); a
\* transaction that fails changes nothing.
FriendAdd(cur, tgt) ==
    /\ friendOps.adds + friendOps.removes < MaxFriendOps
    /\ relationships' = FriendAdded(relationships, cur, tgt)
    /\ friendOps' = [friendOps EXCEPT !.adds = @ + 1]
    /\ UNCHANGED <<lockVars, loopPc, accountSeq, txVars, seqVars, occVars,
                   connVars, cacheVars, kvVars, ephVars>>

\* part_012:22-70  friendRemove: one serializable transaction.
FriendRemove(cur, tgt) ==
    /\ friendOps.adds + friendOps.removes < MaxFriendOps
    /\ relationships' = FriendRemoved(relationships, cur, tgt)
    /\ friendOps' = [friendOps EXCEPT !.removes = @ + 1]
    /\ UNCHANGED <<lockVars, loopPc, accountSeq, txVars, seqVars, occVars,
                   connVars, cacheVars, kvVars, ephVars>>

NextFriends ==
    \/ \E cur \in FriendUsers, tgt \in FriendUsers : FriendAdd(cur, tgt)
    \/ \E cur \in FriendUsers, tgt \in FriendUsers : FriendRemove(cur, tgt)

InitFriends ==
    /\ accountSeq = [u \in Users |-> 0]
    /\ TxInit
    /\ SeqInit
    /\ OccInit
    /\ RestInit

SpecFriends == InitFriends /\ [][NextFriends]_vars

\* ---------------------------------------------- claims about friendships

\* C40.  After any sequence of friendAdd and friendRemove calls between two
\* users A and B, A's relationship to B is friend iff B's relationship to A
\* is friend.
C40_FriendshipIsMutual ==
    \A p \in Pairs :
        relationships[p] = "friend" <=> relationships[<<p[2], p[1]>>] = "friend"

\* u1 and u2 are friends after three friendAdd calls and a friendRemove:
\* a request, its acceptance, the end of the friendship and its renewal.
C40_Witness ==
    /\ relationships[<<"u1", "u2">>] = "friend"
    /\ relationships[<<"u2", "u1">>] = "friend"
    /\ relationships[<<"u1", "u3">>] = "none" /\ relationships[<<"u3", "u1">>] = "none"
    /\ relationships[<<"u2", "u3">>] = "none" /\ relationships[<<"u3", "u2">>] = "none"
    /\ friendOps = [adds |-> 3, removes |-> 1]

\* ------------------------------------ claims about the timeout sweeper

\* C32.  The timeout sweeper sets a session or machine inactive only if its
\* stored lastActiveAt is at least ten minutes old at the instant of the
\* write: a flush of the activity cache that lands between the sweeper's
\* scan and its write prevents the deactivation.
C32_DeactivatesOnlyStale ==
    [][\A w \in Writers :
          /\ TimeoutUpdate(w)
          /\ IsActive(writers[w].value) /\ ~IsActive(writers[w].value)'
          => activeAt[writers[w].value] <= now - TenMinutes]_vars

\* The stored active flag of a session or machine.
RowActive(id) == IF id = "s1" THEN sessionActive ELSE machineActive

\* The inactive announcements of an entity among the events sent.
InactiveEvents(sent, id) ==
    {i \in 1..Len(sent) :
        /\ "active" \in DOMAIN sent[i]
        /\ sent[i].id = id
        /\ ~sent[i].active}

\* C39.  The timeout sweeper emits exactly one inactive ephemeral event per
\* active-to-inactive transition of a session or machine: a step emits one
\* for an entity iff it sets the entity's row inactive, so nothing is
\* emitted when the conditional write changed no row or when a later sweep
\* meets an entity that is inactive already.
C39_OneEventPerTransition ==
    [][\A id \in CacheIds :
          Cardinality(InactiveEvents(delivered', id))
              - Cardinality(InactiveEvents(delivered, id))
          = IF RowActive(id) /\ ~RowActive(id)' THEN 1 ELSE 0]_vars

\* Two sweeps over the session have ended; the session was set inactive
\* once and announced once.
C39_Witness ==
    /\ \A w \in {1, 2} :
          /\ writers[w].kind = "timeout" /\ writers[w].value = "s1"
          /\ writers[w].pc = "done"
    /\ ~sessionActive
    /\ Cardinality(InactiveEvents(delivered, "s1")) = 1
    /\ Len(delivered) = 1

\* C37.  After the shutdown signal is raised, a task started with forever
\* (the session-timeout sweeper) stops doing further work and its loop
\* exits: no new sweep is started once the signal is aborted.
C37_NoSweepAfterShutdown ==
    [][Aborted /\ loopPc' = "sessions" => loopPc = "sessions"]_vars

\* ------------------------------------- claims about the machine heartbeat

\* The event a validated heartbeat of writer w is announced with.
AliveEvent(w) ==
    [type |-> "machine-activity", id |-> writers[w].value, active |-> TRUE,
     activeAt |-> IF writers[w].ev > now THEN now ELSE writers[w].ev]

\* The heartbeat of writer w names no machine or is older than ten minutes.
Dropped(w) ==
    \/ writers[w].value = NULL
    \/ writers[w].ev < now - TenMinutes

\* C38.  A machine-alive heartbeat whose machine is validated for the
\* sending user emits exactly one machine-activity ephemeral, whether or not
\* the cache queued a store write, and its time is the heartbeat's, clamped
\* to the present when it lies in the future; a heartbeat that is malformed,
\* older than ten minutes or fails the validation emits nothing and queues
\* nothing.
C38_HeartbeatEmitsIffValidated ==
    [][\A w \in Writers :
          /\ MachineAlive(w) =>
                IF Dropped(w) \/ writers'[w].pc = "lookup"
                THEN delivered' = delivered /\ cache' = cache
                ELSE delivered' = Append(delivered, AliveEvent(w))
          /\ \A fails \in BOOLEAN :
                MachineAliveLookup(w, fails) =>
                    IF fails
                    THEN delivered' = delivered /\ cache' = cache
                    ELSE delivered' = Append(delivered, AliveEvent(w))]_vars

\* A heartbeat that carried a time ahead of the server's clock was
\* announced with the present time, and the cache queued no write for it.
C38_Witness ==
    /\ \E w \in Writers :
          /\ writers[w].kind = "machine-alive" /\ writers[w].pc = "done"
          /\ writers[w].ev = EphNow + 1000
    /\ delivered = <<MachineActivityEphemeral("m1", TRUE, EphNow)>>
    /\ cache["m1"].cached /\ cache["m1"].pendingUpdate = NoStamp

=============================================================================
